---- MODULE Spec2Model ----
EXTENDS Integers, Sequences, FiniteSets, TLC

(***************************************************************************)
(* Rudder stock construction: the post segment list and its radius         *)
(* interpolator (stock/geom.py), the row loop of build_stock_from_csv      *)
(* (stock/stock2d.py) and the heel-cutter workflow (stock/heel_cutter.py). *)
(*                                                                         *)
(* Lengths along Z are integers counting ticks of 1e-9 mm, the tolerance   *)
(* _EPS of geom.py, so that the tolerance is visible on the grid.  Radii   *)
(* are exact rationals [n, d] in lowest terms (d > 0): the float           *)
(* arithmetic of the source is modelled as exact arithmetic.               *)
(***************************************************************************)

VARIABLES
    \* --- stock/geom.py: a segment list and one radius_at call on it
    segments,          \* the list append_post_segment_from_row appends to
    q_called,          \* TRUE once radius_at has been called on `segments`
    q_z,               \* the z_world of that call
    q_result,          \* what the call returned or raised
    \* --- stock/stock2d.py: build_stock_from_csv
    rows,              \* the rows read_stock_csv_sectioned returned
    row_i,             \* number of rows the for loop has consumed
    post_segments,     \* post_segments
    compound_shapes,   \* compound_shapes
    summaries,         \* summaries
    log,               \* one printed diagnostic per consumed row
    pc,                \* "rows" | "returned" | "raised" | "idle"
    err,               \* the exception that left build_stock_from_csv
    compound,          \* the shapes of the compound put in body.Shape
    \* --- stock/heel_cutter.py: apply_heel_cutter_workflow
    h_in,              \* the arguments of the call
    h_kernel,          \* how the CAD kernel behaved during the call
    h_summaries,       \* the caller's summaries list (mutated in place)
    h_pc,              \* "call" | "returned" | "raised" | "idle"
    h_out,             \* the returned list
    \* --- stock/plate_math.py, plate.py, wedge_angled.py, wedge.py,
    \*     cylinder.py, taper.py: one call of a component builder
    b_call,            \* the function called and its arguments
    b_pc,              \* "ready" | "returned" | "raised" | "idle"
    b_out              \* what the call returned, or the exception

vars == <<segments, q_called, q_z, q_result,
          rows, row_i, post_segments, compound_shapes, summaries, log, pc, err,
          compound, h_in, h_kernel, h_summaries, h_pc, h_out,
          b_call, b_pc, b_out>>

geomVars == <<segments, q_called, q_z, q_result>>
buildVars == <<rows, row_i, post_segments, compound_shapes, summaries, log, pc, err,
               compound>>
heelVars == <<h_in, h_kernel, h_summaries, h_pc, h_out>>
builderVars == <<b_call, b_pc, b_out>>

-----------------------------------------------------------------------------
(* Bounds of the model *)

MaxSegs == 2

-----------------------------------------------------------------------------
(* Exact arithmetic standing for Python float arithmetic *)

Abs(x) == IF x < 0 THEN -x ELSE x

Min2(a, b) == IF a < b THEN a ELSE b

Max2(a, b) == IF a > b THEN a ELSE b

RECURSIVE GCD(_, _)
GCD(a, b) == IF b = 0 THEN a ELSE GCD(b, a % b)

\* the rational n/d (d # 0) in lowest terms with a positive denominator
Rat(n, d) ==
    LET s == IF d < 0 THEN -1 ELSE 1
        g == GCD(Abs(n), Abs(d))
    IN  [n |-> (s * n) \div g, d |-> (s * d) \div g]

RInt(i) == [n |-> i, d |-> 1]

RAdd(a, b) == Rat(a.n * b.d + b.n * a.d, a.d * b.d)

RSub(a, b) == Rat(a.n * b.d - b.n * a.d, a.d * b.d)

RMul(a, b) == Rat(a.n * b.n, a.d * b.d)

-----------------------------------------------------------------------------
(* CSV cells.  A row maps column names to strings; a cell is modelled by    *)
(* what float() makes of it.                                               *)

Num(v) == [tag |-> "num", v |-> v]
NonNumeric == [tag |-> "str", v |-> 0]
EmptyCell == [tag |-> "empty", v |-> 0]
Missing == [tag |-> "missing", v |-> 0]

\* mutant: a cell that is no number is read as 0.0 instead of raising
FloatOf_Lenient(cell) ==
    IF cell.tag = "missing" THEN [ok |-> FALSE, v |-> 0, err |-> "KeyError"]
    ELSE [ok |-> TRUE, v |-> cell.v, err |-> "none"]

\* float(row[key]): KeyError for an absent key, ValueError for a cell that
\* is no number
FloatOf(cell) ==
    IF cell.tag = "num" THEN [ok |-> TRUE, v |-> cell.v, err |-> "none"]
    ELSE IF cell.tag = "missing" THEN [ok |-> FALSE, v |-> 0, err |-> "KeyError"]
    ELSE [ok |-> FALSE, v |-> 0, err |-> "ValueError"]

\* str.lower() on the type names that occur
Lower(s) ==
    CASE s = "Cylinder" -> "cylinder"
      [] s = "Taper" -> "taper"
      [] s = "Wedge" -> "wedge"
      [] s = "Plate" -> "plate"
      [] s = "Bolt" -> "bolt"
      [] OTHER -> s

\* the first exception of a sequence of float() results, or "none"
RECURSIVE FirstErr(_)
FirstErr(fs) ==
    IF fs = <<>> THEN "none"
    ELSE IF ~Head(fs).ok THEN Head(fs).err
    ELSE FirstErr(Tail(fs))

-----------------------------------------------------------------------------
(* stock/geom.py *)

EPS == 1

DegenPerEps == 1000

\* append_post_segment_from_row: the list after the call, and the exception
\* that left it ("none" if it returned)
append_post_segment_from_row(segs, row) ==
    LET shape_type == Lower(row.type)
        f0 == FloatOf(row.start)
        f1 == FloatOf(row.end)
        fd1 == FloatOf(row.diameter_start)
        fd2 == FloatOf(row.diameter_end)
        z0 == -f0.v
        z1 == -f1.v
    IN  IF shape_type = "cylinder" THEN
            LET e == FirstErr(<<f0, f1, fd1>>)
                base_z == IF z0 < z1 THEN z0 ELSE z1
                height == Abs(z1 - z0)
                r == Rat(fd1.v, 2)
            IN  IF e # "none" THEN [segments |-> segs, err |-> e]
                ELSE [segments |-> Append(segs,
                                     [kind |-> "cyl", z_bot |-> base_z,
                                      z_top |-> base_z + height,
                                      r_bot |-> r, r_top |-> r]),
                      err |-> "none"]
        ELSE IF shape_type = "taper" THEN
            LET e == FirstErr(<<f0, f1, fd1, fd2>>)
                z_bot == IF z0 < z1 THEN z0 ELSE z1
                z_top == IF z1 > z0 THEN z1 ELSE z0
            IN  IF e # "none" THEN [segments |-> segs, err |-> e]
                ELSE [segments |-> Append(segs,
                                     [kind |-> "taper", z_bot |-> z_bot,
                                      z_top |-> z_top,
                                      r_bot |-> Rat(fd2.v, 2),
                                      r_top |-> Rat(fd1.v, 2)]),
                      err |-> "none"]
        ELSE [segments |-> segs, err |-> "none"]

\* mutant: the range test without the tolerance
Covers_NoTolerance(seg, z_world) ==
    seg.z_bot <= z_world /\ z_world <= seg.z_top

\* mutant: a taper interpolated from the wrong end
SegRadius_FromTop(seg, z_world) ==
    LET span == seg.z_top - seg.z_bot
    IN  IF seg.kind = "cyl" THEN seg.r_top
        ELSE IF Abs(span) * DegenPerEps < EPS THEN seg.r_top
        ELSE LET t == Rat(z_world - seg.z_bot, span)
             IN  RAdd(seg.r_top, RMul(t, RSub(seg.r_bot, seg.r_top)))

\* seg["z_bot"] - _EPS <= z_world <= seg["z_top"] + _EPS
Covers(seg, z_world) ==
    seg.z_bot - EPS <= z_world /\ z_world <= seg.z_top + EPS

\* a taper read at the mean of its end radii whatever z is
SegRadius_Midpoint(seg, z_world) ==
    IF seg.kind = "cyl" THEN seg.r_top
    ELSE RMul(RAdd(seg.r_bot, seg.r_top), Rat(1, 2))

\* the value radius_at returns from the segment it stops at
SegRadius(seg, z_world) ==
    LET span == seg.z_top - seg.z_bot
    IN  IF seg.kind = "cyl" THEN seg.r_top
        ELSE IF Abs(span) * DegenPerEps < EPS THEN seg.r_top
        ELSE LET t == Rat(z_world - seg.z_bot, span)
             IN  RAdd(seg.r_bot, RMul(t, RSub(seg.r_top, seg.r_bot)))

NoRadius == [ok |-> FALSE, r |-> RInt(0), err |-> "none"]

\* the for loop of radius_at from list position i on
RECURSIVE RadiusScan(_, _, _)
RadiusScan(z_world, segs, i) ==
    IF i > Len(segs) THEN [ok |-> FALSE, r |-> RInt(0), err |-> "ValueError"]
    ELSE IF Covers(segs[i], z_world)
         THEN [ok |-> TRUE, r |-> SegRadius(segs[i], z_world), err |-> "none"]
         ELSE RadiusScan(z_world, segs, i + 1)

radius_at(z_world, segs) == RadiusScan(z_world, segs, 1)

-----------------------------------------------------------------------------
(* Inputs of the geom.py specification *)

CsvZ == {0, 2, 4}

CsvDiam == {2, 4}

QueryZ == -6 .. 2

PostRow(ty, s, e, d1, d2) ==
    [type |-> ty, has_plate |-> FALSE, has_wedge |-> FALSE,
     start |-> s, end |-> e, diameter_start |-> d1, diameter_end |-> d2,
     width |-> Missing, length |-> Missing, plate_thickness |-> Missing,
     angle |-> Missing]

TineRow(ty, hp, hw, s, w, l, t, a) ==
    [type |-> ty, has_plate |-> hp, has_wedge |-> hw,
     start |-> s, end |-> Missing, diameter_start |-> Missing,
     diameter_end |-> Missing,
     width |-> w, length |-> l, plate_thickness |-> t, angle |-> a]

GeomRows ==
    {PostRow("cylinder", Num(s), Num(e), Num(d), Missing) :
        s \in CsvZ, e \in CsvZ, d \in CsvDiam}
    \cup {PostRow("taper", Num(s), Num(e), Num(d1), Num(d2)) :
        s \in CsvZ, e \in CsvZ, d1 \in CsvDiam, d2 \in CsvDiam}
    \cup {PostRow("Taper", NonNumeric, Num(2), Num(2), Num(4)),
          PostRow("cylinder", Num(0), Num(2), Missing, Missing),
          TineRow("wedge", FALSE, TRUE, Num(2), Num(1), Num(3), Num(1), Num(90))}

-----------------------------------------------------------------------------
(* Idle values of the parts a specification does not run *)

IdleGeom ==
    /\ segments = <<>>
    /\ q_called = FALSE
    /\ q_z = 0
    /\ q_result = NoRadius

IdleBuild ==
    /\ rows = <<>>
    /\ row_i = 0
    /\ post_segments = <<>>
    /\ compound_shapes = <<>>
    /\ summaries = <<>>
    /\ log = <<>>
    /\ pc = "idle"
    /\ err = "none"
    /\ compound = <<>>

IdleHeel ==
    /\ h_in = <<>>
    /\ h_kernel = <<>>
    /\ h_summaries = <<>>
    /\ h_pc = "idle"
    /\ h_out = <<>>

IdleBuilders ==
    /\ b_call = <<>>
    /\ b_pc = "idle"
    /\ b_out = <<>>

-----------------------------------------------------------------------------
(* Specification of stock/geom.py: rows are appended to a segment list and *)
(* radius_at is called on it.                                              *)

InitGeom ==
    /\ segments = <<>>
    /\ q_called = FALSE
    /\ q_z = 0
    /\ q_result = NoRadius
    /\ IdleBuild
    /\ IdleHeel
    /\ IdleBuilders

AppendSegment ==
    /\ Len(segments) < MaxSegs
    /\ \E row \in GeomRows :
          segments' = append_post_segment_from_row(segments, row).segments
    /\ q_called' = FALSE
    /\ q_z' = 0
    /\ q_result' = NoRadius
    /\ UNCHANGED <<buildVars, heelVars, builderVars>>

RadiusQuery ==
    /\ \E z \in QueryZ :
          /\ q_z' = z
          /\ q_result' = radius_at(z, segments)
    /\ q_called' = TRUE
    /\ UNCHANGED <<segments, buildVars, heelVars, builderVars>>

NextGeom == AppendSegment \/ RadiusQuery

SpecGeom == InitGeom /\ [][NextGeom]_vars

-----------------------------------------------------------------------------
(* Claims about radius_at, checked under SpecGeom *)

\* position k holds the first segment of the list whose range
\* [z_bot - eps, z_top + eps] contains the queried z
IsFirstCovering(k) ==
    /\ k \in 1 .. Len(segments)
    /\ segments[k].z_bot - EPS <= q_z
    /\ q_z <= segments[k].z_top + EPS
    /\ \A j \in 1 .. (k - 1) :
          ~(segments[j].z_bot - EPS <= q_z /\ q_z <= segments[j].z_top + EPS)

\* r = r_bot + (z - z_bot)/(z_top - z_bot) * (r_top - r_bot), multiplied out
\* by the span and the three denominators
OnTaperLine(seg, z, r) ==
    LET span == seg.z_top - seg.z_bot
        b == seg.r_bot
        c == seg.r_top
    IN  r.n * b.d * c.d * span
          = r.d * (b.n * c.d * span + (z - seg.z_bot) * (c.n * b.d - b.n * c.d))

\* r_bot at z_bot, r_top at z_top, the mean of the two at the midpoint
TaperEndsAndMiddle(seg, z, r) ==
    /\ (z = seg.z_bot) => (r = seg.r_bot)
    /\ (z = seg.z_top) => (r = seg.r_top)
    /\ (2 * z = seg.z_bot + seg.z_top)
          => (2 * r.n * seg.r_bot.d * seg.r_top.d
               = r.d * (seg.r_bot.n * seg.r_top.d + seg.r_top.n * seg.r_bot.d))

\* C1 as stated: radius_at returns the value of the first covering segment,
\* r_top for a cylinder and the linear interpolation for every taper
Orig_C1 ==
    q_called =>
        \A k \in 1 .. Len(segments) :
            IsFirstCovering(k) =>
                /\ q_result.ok
                /\ (segments[k].kind = "cyl") => (q_result.r = segments[k].r_top)
                /\ (segments[k].kind = "taper") =>
                      /\ OnTaperLine(segments[k], q_z, q_result.r)
                      /\ TaperEndsAndMiddle(segments[k], q_z, q_result.r)

\* C1 amended: radius_at returns the value of the first covering segment in
\* list order: r_top for a cylinder, the linear interpolation for a taper
\* whose span z_top - z_bot is not zero, and r_top for a taper of zero span;
\* later segments are not consulted
Thm_C1 ==
    q_called =>
        \A k \in 1 .. Len(segments) :
            IsFirstCovering(k) =>
                /\ q_result.ok
                /\ (segments[k].kind = "cyl") => (q_result.r = segments[k].r_top)
                /\ (segments[k].kind = "taper"
                      /\ segments[k].z_top # segments[k].z_bot) =>
                      /\ OnTaperLine(segments[k], q_z, q_result.r)
                      /\ TaperEndsAndMiddle(segments[k], q_z, q_result.r)
                /\ (segments[k].kind = "taper"
                      /\ segments[k].z_top = segments[k].z_bot) =>
                      (q_result.r = segments[k].r_top)

\* a taper is hit strictly inside its range while a later cylinder of
\* another radius covers the same z
Wit_C1 ==
    /\ q_called
    /\ Len(segments) = 2
    /\ segments[1].kind = "taper"
    /\ segments[1].r_bot # segments[1].r_top
    /\ segments[1].z_bot < q_z /\ q_z < segments[1].z_top
    /\ segments[2].kind = "cyl"
    /\ segments[2].z_bot <= q_z /\ q_z <= segments[2].z_top
    /\ q_result.ok
    /\ q_result.r # segments[2].r_top

\* C2: radius_at raises its ValueError ("No post segment covers Z") exactly
\* when no segment of the list covers z, the empty list included, and
\* returns a radius whenever some segment covers z
Thm_C2 ==
    q_called =>
        LET covered == \E i \in 1 .. Len(segments) :
                          /\ segments[i].z_bot - EPS <= q_z
                          /\ q_z <= segments[i].z_top + EPS
        IN  /\ q_result.ok <=> covered
            /\ ~q_result.ok <=> (q_result.err = "ValueError")

\* two segments are in the list, neither covers z, and the call raised
Wit_C2 ==
    /\ q_called
    /\ Len(segments) = 2
    /\ ~q_result.ok
    /\ q_result.err = "ValueError"

-----------------------------------------------------------------------------
(* stock/stock2d.py: build_stock_from_csv *)

MaxRows == 3

\* what the CAD kernel does with the row's shape: build it, raise, or hand
\* back a null shape from the trim intersection
KernelOutcomes == {"ok", "raise", "null"}

EmptyGeometry == "ValueError: No valid stock geometry found in CSV"

\* the range test of the radius_at closure
CoversInline(seg, z_world) ==
    seg.z_bot - EPS <= z_world /\ z_world <= seg.z_top + EPS

\* the value the radius_at closure returns from the segment it stops at
SegRadiusInline(seg, z_world) ==
    LET span == seg.z_top - seg.z_bot
    IN  IF seg.kind = "cyl" THEN seg.r_top
        ELSE LET t == IF Abs(span) * DegenPerEps < EPS THEN RInt(0)
                      ELSE Rat(z_world - seg.z_bot, span)
             IN  RAdd(seg.r_bot, RMul(t, RSub(seg.r_top, seg.r_bot)))

RECURSIVE RadiusScanInline(_, _, _)
RadiusScanInline(z_world, segs, i) ==
    IF i > Len(segs) THEN [ok |-> FALSE, r |-> RInt(0), err |-> "ValueError"]
    ELSE IF CoversInline(segs[i], z_world)
         THEN [ok |-> TRUE, r |-> SegRadiusInline(segs[i], z_world), err |-> "none"]
         ELSE RadiusScanInline(z_world, segs, i + 1)

\* the closure searching the list from its second segment on
radius_at_inline_SkipFirst(z_world, segs) == RadiusScanInline(z_world, segs, 2)

\* the radius_at closure of build_stock_from_csv over post_segments
radius_at_inline(z_world, segs) == RadiusScanInline(z_world, segs, 1)

\* the section key tried before the explicit type
ResolveType_KeyFirst(row) ==
    IF row.has_plate THEN "plate"
    ELSE IF row.has_wedge THEN "wedge"
    ELSE Lower(row.type)

\* shape_type of a row: the explicit type, else the section key it carries
ResolveType(row) ==
    LET shape_type == Lower(row.type)
    IN  IF shape_type # "" THEN shape_type
        ELSE IF row.has_plate THEN "plate"
        ELSE IF row.has_wedge THEN "wedge"
        ELSE ""

\* a kernel shape: its primitive, the row that made it, placement (x, y, z),
\* sizes, end radii, the tilt it was rotated by and whether it is null
Solid(kind, row, x, y, z, lx, ly, lz, r1, r2, tilt, null) ==
    [kind |-> kind, row |-> row, x |-> x, y |-> y, z |-> z,
     lx |-> lx, ly |-> ly, lz |-> lz, r1 |-> r1, r2 |-> r2,
     tilt |-> tilt, null |-> null]

Summary(kind, row, r_at) == [kind |-> kind, row |-> row, r_at |-> r_at]

RowFails(e, radius_fail) ==
    [err |-> e, shapes |-> <<>>, summ |-> <<>>, segs |-> <<>>,
     msg |-> "error", radius_fail |-> radius_fail]

\* mutant: a row that succeeds leaves no summary
RowDone_NoSummary(shapes, summ, segs, msg, radius_fail) ==
    [err |-> "none", shapes |-> shapes, summ |-> <<>>, segs |-> segs,
     msg |-> msg, radius_fail |-> radius_fail]

\* mutant: the row's segment is appended twice
RowDone_SegmentTwice(shapes, summ, segs, msg, radius_fail) ==
    [err |-> "none", shapes |-> shapes, summ |-> summ, segs |-> segs \o segs,
     msg |-> msg, radius_fail |-> radius_fail]

RowDone(shapes, summ, segs, msg, radius_fail) ==
    [err |-> "none", shapes |-> shapes, summ |-> summ, segs |-> segs,
     msg |-> msg, radius_fail |-> radius_fail]

\* mutant: the inner handler around radius_at is missing
LookupCaught_Never(res) == FALSE

\* the try/except around radius_at(z_attach) of a wedge or plate row: any
\* exception is caught and r defaults to 0.0
LookupCaught(res) == ~res.ok

\* the 'cylinder' branch
CylinderBody(row, i, k) ==
    LET f0 == FloatOf(row.start)
        f1 == FloatOf(row.end)
        fd == FloatOf(row.diameter_start)
        e == FirstErr(<<f0, f1, fd>>)
        z0 == -f0.v
        z1 == -f1.v
        base_z == Min2(z0, z1)
        height == Abs(z1 - z0)
        r == Rat(fd.v, 2)
    IN  IF e # "none" THEN RowFails(e, FALSE)
        ELSE IF k = "raise" THEN RowFails("KernelError", FALSE)
        ELSE RowDone(
               <<Solid("cylinder", i, RInt(0), 0, base_z, 0, 0, height, r, r, 0, FALSE)>>,
               <<Summary("Cylinder", i, RInt(0))>>,
               <<[kind |-> "cyl", z_bot |-> base_z, z_top |-> base_z + height,
                  r_bot |-> r, r_top |-> r]>>,
               "ok", FALSE)

\* mutant: the segment takes z0 and z1 as given, without min and max
TaperBody_AsGiven(row, i, k) ==
    LET f0 == FloatOf(row.start)
        f1 == FloatOf(row.end)
        fd1 == FloatOf(row.diameter_start)
        fd2 == FloatOf(row.diameter_end)
        e == FirstErr(<<f0, f1, fd1, fd2>>)
        z0 == -f0.v
        z1 == -f1.v
        height == Abs(z1 - z0)
    IN  IF e # "none" THEN RowFails(e, FALSE)
        ELSE IF k = "raise" THEN RowFails("KernelError", FALSE)
        ELSE RowDone(
               <<Solid("cone", i, RInt(0), 0, z0 - height, 0, 0, height,
                       Rat(fd2.v, 2), Rat(fd1.v, 2), 0, FALSE)>>,
               <<Summary("Taper", i, RInt(0))>>,
               <<[kind |-> "taper", z_bot |-> z0, z_top |-> z1,
                  r_bot |-> Rat(fd2.v, 2), r_top |-> Rat(fd1.v, 2)]>>,
               "ok", FALSE)

\* the 'taper' branch
TaperBody(row, i, k) ==
    LET f0 == FloatOf(row.start)
        f1 == FloatOf(row.end)
        fd1 == FloatOf(row.diameter_start)
        fd2 == FloatOf(row.diameter_end)
        e == FirstErr(<<f0, f1, fd1, fd2>>)
        z0 == -f0.v
        z1 == -f1.v
        height == Abs(z1 - z0)
    IN  IF e # "none" THEN RowFails(e, FALSE)
        ELSE IF k = "raise" THEN RowFails("KernelError", FALSE)
        ELSE RowDone(
               <<Solid("cone", i, RInt(0), 0, z0 - height, 0, 0, height,
                       Rat(fd2.v, 2), Rat(fd1.v, 2), 0, FALSE)>>,
               <<Summary("Taper", i, RInt(0))>>,
               <<[kind |-> "taper", z_bot |-> Min2(z0, z1), z_top |-> Max2(z0, z1),
                  r_bot |-> Rat(fd2.v, 2), r_top |-> Rat(fd1.v, 2)]>>,
               "ok", FALSE)

\* float(row_dict.get('angle', '90') or 90.0)
AngleOf(cell) ==
    IF cell.tag \in {"missing", "empty"} THEN [ok |-> TRUE, v |-> 90, err |-> "none"]
    ELSE FloatOf(cell)

\* the kernel hands back a null shape from the trim intersection of this
\* row: the row is an angled wedge or plate whose fields parse
TrimIsNull(row, k) ==
    /\ k = "null"
    /\ ResolveType(row) \in {"wedge", "plate"}
    /\ FirstErr(<<FloatOf(row.start), FloatOf(row.width), FloatOf(row.length),
                  FloatOf(row.plate_thickness), AngleOf(row.angle)>>) = "none"
    /\ AngleOf(row.angle).v # 90

\* mutant: a null trim result is treated as an error of the row
TineBody_NullRaises(row, i, segs, k, name) ==
    LET fs == FloatOf(row.start)
        fw == FloatOf(row.width)
        fl == FloatOf(row.length)
        ft == FloatOf(row.plate_thickness)
        fa == AngleOf(row.angle)
        e == FirstErr(<<fs, fw, fl, ft, fa>>)
        start == fs.v
        width == fw.v
        length_out == fl.v
        t == ft.v
        angle_deg == fa.v
        z_attach == -start
        ra == radius_at_inline(z_attach, segs)
        r == IF ra.ok THEN ra.r ELSE RInt(0)
        tilt == 90 - angle_deg
    IN  IF e # "none" THEN RowFails(e, FALSE)
        ELSE IF ~ra.ok /\ ~LookupCaught(ra) THEN RowFails(ra.err, TRUE)
        ELSE IF k = "raise" THEN RowFails("KernelError", ~ra.ok)
        ELSE IF tilt # 0 /\ k = "null" THEN RowFails("ValueError", ~ra.ok)
        ELSE RowDone(
               <<Solid("box", i, r, -t, -(start + width), length_out, 2 * t, width,
                       RInt(0), RInt(0), tilt, FALSE)>>,
               <<Summary(name, i, r)>>,
               <<>>,
               "ok", ~ra.ok)

\* the 'wedge' and 'plate' branches (the same code under two summary names)
TineBody(row, i, segs, k, name) ==
    LET fs == FloatOf(row.start)
        fw == FloatOf(row.width)
        fl == FloatOf(row.length)
        ft == FloatOf(row.plate_thickness)
        fa == AngleOf(row.angle)
        e == FirstErr(<<fs, fw, fl, ft, fa>>)
        start == fs.v
        width == fw.v
        length_out == fl.v
        t == ft.v
        angle_deg == fa.v
        z_attach == -start
        ra == radius_at_inline(z_attach, segs)
        r == IF ra.ok THEN ra.r ELSE RInt(0)
        tilt == 90 - angle_deg
    IN  IF e # "none" THEN RowFails(e, FALSE)
        ELSE IF ~ra.ok /\ ~LookupCaught(ra) THEN RowFails(ra.err, TRUE)
        ELSE IF k = "raise" THEN RowFails("KernelError", ~ra.ok)
        ELSE RowDone(
               <<Solid("box", i, r, -t, -(start + width), length_out, 2 * t, width,
                       RInt(0), RInt(0), tilt, tilt # 0 /\ k = "null")>>,
               <<Summary(name, i, r)>>,
               <<>>,
               "ok", ~ra.ok)

\* the body of the try statement for one row
RowBody(row, i, segs, k) ==
    LET shape_type == ResolveType(row)
    IN  CASE shape_type = "cylinder" -> CylinderBody(row, i, k)
          [] shape_type = "taper" -> TaperBody(row, i, k)
          [] shape_type = "wedge" -> TineBody(row, i, segs, k, "Tine")
          [] shape_type = "plate" -> TineBody(row, i, segs, k, "Plate")
          [] OTHER -> RowDone(<<>>, <<>>, <<>>, "unknown", FALSE)

\* mutant: the row handler catches ValueError only
Catches_ValueErrorOnly(e) == e = "ValueError"

\* 'except Exception' of the row loop
Catches(e) == e # "none"

\* mutant: the emptiness test is off by one
NoGeometry_OffByOne(shapes) == Len(shapes) <= 1

\* 'not compound_shapes'
NoGeometry(shapes) == shapes = <<>>

BuildRows ==
    {PostRow("Cylinder", Num(0), Num(4), Num(4), Missing),
     PostRow("taper", Num(4), Num(8), Num(4), Num(2)),
     PostRow("taper", Num(8), Num(4), Num(2), Num(4)),
     PostRow("taper", Num(4), Num(4), Num(4), Num(2)),
     PostRow("cylinder", NonNumeric, Num(4), Num(4), Missing),
     PostRow("taper", Num(0), Num(4), Num(4), Missing),
     TineRow("wedge", FALSE, TRUE, Num(2), Num(1), Num(3), Num(1), Num(90)),
     TineRow("", TRUE, FALSE, Num(6), Num(1), Num(3), Num(1), Num(60)),
     TineRow("plate", TRUE, FALSE, Num(6), Num(1), Num(3), Num(1), Missing),
     TineRow("wedge", FALSE, TRUE, NonNumeric, Num(1), Num(3), Num(1), Num(90)),
     TineRow("", FALSE, FALSE, Num(2), Num(1), Num(3), Num(1), Num(90)),
     TineRow("", TRUE, TRUE, Num(2), Num(1), Num(3), Num(1), Num(90)),
     TineRow("Bolt", TRUE, FALSE, Num(2), Num(1), Num(3), Num(1), Num(90))}

RECURSIVE SeqsUpTo(_, _)
SeqsUpTo(S, n) ==
    IF n = 0 THEN {<<>>}
    ELSE LET shorter == SeqsUpTo(S, n - 1)
         IN  shorter \cup {Append(s, x) : s \in shorter, x \in S}

Init ==
    /\ rows \in SeqsUpTo(BuildRows, MaxRows)
    /\ row_i = 0
    /\ post_segments = <<>>
    /\ compound_shapes = <<>>
    /\ summaries = <<>>
    /\ log = <<>>
    /\ pc = "rows"
    /\ err = "none"
    /\ compound = <<>>
    /\ IdleGeom
    /\ IdleHeel
    /\ IdleBuilders

\* one iteration of 'for row_dict in rows'
ProcessRow ==
    /\ pc = "rows"
    /\ row_i < Len(rows)
    /\ \E k \in KernelOutcomes :
          LET i == row_i + 1
              o == RowBody(rows[i], i, post_segments, k)
          IN  /\ row_i' = i
              /\ IF o.err = "none" THEN
                    /\ compound_shapes' = compound_shapes \o o.shapes
                    /\ summaries' = summaries \o o.summ
                    /\ post_segments' = post_segments \o o.segs
                    /\ log' = Append(log, [kind |-> o.msg, exc |-> "none",
                                           radius_fail |-> o.radius_fail,
                                           trim_null |-> TrimIsNull(rows[i], k)])
                    /\ UNCHANGED <<pc, err>>
                 ELSE IF Catches(o.err) THEN
                    /\ log' = Append(log, [kind |-> "error", exc |-> o.err,
                                           radius_fail |-> o.radius_fail,
                                           trim_null |-> TrimIsNull(rows[i], k)])
                    /\ UNCHANGED <<compound_shapes, summaries, post_segments, pc, err>>
                 ELSE
                    /\ pc' = "raised"
                    /\ err' = o.err
                    /\ UNCHANGED <<compound_shapes, summaries, post_segments, log>>
    /\ UNCHANGED <<rows, compound, geomVars, heelVars, builderVars>>

\* after the loop: raise on an empty shape list, else make the compound
Finish ==
    /\ pc = "rows"
    /\ row_i = Len(rows)
    /\ IF NoGeometry(compound_shapes)
       THEN /\ pc' = "raised"
            /\ err' = EmptyGeometry
            /\ UNCHANGED compound
       ELSE /\ pc' = "returned"
            /\ compound' = compound_shapes
            /\ UNCHANGED err
    /\ UNCHANGED <<rows, row_i, post_segments, compound_shapes, summaries, log,
                   geomVars, heelVars, builderVars>>

Next == ProcessRow \/ Finish

Spec == Init /\ [][Next]_vars

-----------------------------------------------------------------------------
(* Claims about the row loop of build_stock_from_csv, checked under Spec *)

Terminal == pc \in {"returned", "raised"}

ShapesOfRow(shapes, i) == {j \in 1 .. Len(shapes) : shapes[j].row = i}

SummariesOfRow(i) == {j \in 1 .. Len(summaries) : summaries[j].row = i}

\* C3: an exception raised while one row is processed is caught inside the
\* row loop: every row gets dispatched (one diagnostic per consumed row, all
\* rows consumed at the end), and no exception other than the empty-geometry
\* error leaves build_stock_from_csv
Thm_C3 ==
    /\ Len(log) = row_i
    /\ pc \in {"rows", "returned", "raised"}
    /\ Terminal => row_i = Len(rows)
    /\ (pc = "raised") => (err = EmptyGeometry)
    /\ (pc # "raised") => (err = "none")

\* a missing key in the first row and a kernel error in the second, and the
\* third row was still built and the build returned
Wit_C3 ==
    /\ pc = "returned"
    /\ Len(rows) = 3
    /\ log[1].kind = "error" /\ log[1].exc = "KeyError"
    /\ log[2].kind = "error" /\ log[2].exc = "KernelError"
    /\ log[3].kind = "ok"
    /\ Len(compound) = 1

\* C4: after all rows, build_stock_from_csv raises the empty-geometry error
\* if and only if compound_shapes is empty (no rows, or every row failed or
\* was of unknown type); with at least one solid it returns the compound
Thm_C4 ==
    Terminal =>
        /\ (pc = "raised") <=> (compound_shapes = <<>>)
        /\ (pc = "raised") =>
              /\ err = EmptyGeometry
              /\ \A i \in 1 .. Len(log) : log[i].kind \in {"error", "unknown"}
        /\ (pc = "returned") =>
              /\ compound = compound_shapes
              /\ Len(compound) >= 1
              /\ \E i \in 1 .. Len(log) : log[i].kind = "ok"

\* one failed row and one row of unknown type: the build raised
Wit_C4 ==
    /\ pc = "raised"
    /\ Len(rows) = 2
    /\ log[1].kind = "error"
    /\ log[2].kind = "unknown"

IsNum(cell) == cell.tag = "num"

\* a row of a known type whose numeric cells all parse
ValidRow(row) ==
    LET ty == ResolveType(row)
    IN  \/ /\ ty = "cylinder"
           /\ IsNum(row.start) /\ IsNum(row.end) /\ IsNum(row.diameter_start)
        \/ /\ ty = "taper"
           /\ IsNum(row.start) /\ IsNum(row.end)
           /\ IsNum(row.diameter_start) /\ IsNum(row.diameter_end)
        \/ /\ ty \in {"wedge", "plate"}
           /\ IsNum(row.start) /\ IsNum(row.width) /\ IsNum(row.length)
           /\ IsNum(row.plate_thickness)
           /\ row.angle.tag \in {"num", "missing", "empty"}

ValidIdx == {j \in 1 .. Len(rows) : ValidRow(rows[j])}

\* exactly one row has a non-numeric start, every other row is valid, and the
\* kernel built every shape it was asked for
OneBadStart ==
    /\ \E b \in 1 .. Len(rows) :
          /\ rows[b].start = NonNumeric
          /\ ResolveType(rows[b]) \in {"cylinder", "taper", "wedge", "plate"}
          /\ \A j \in 1 .. Len(rows) : (j # b) => ValidRow(rows[j])
    /\ \A i \in 1 .. Len(log) : log[i].exc # "KernelError"

\* C5 as stated: with one non-numeric start among otherwise valid rows the
\* build returns, the compound holds the solids of every valid row, and the
\* summary list is one entry shorter than the valid-row count
Orig_C5 ==
    (Terminal /\ OneBadStart) =>
        /\ pc = "returned"
        /\ \A j \in ValidIdx : ShapesOfRow(compound, j) # {}
        /\ Len(summaries) = Cardinality(ValidIdx) - 1

\* C5 amended: with one non-numeric start among otherwise valid rows, of
\* which there is at least one, the build returns, the compound holds the
\* solid of every valid row, and the summary list has one entry per valid
\* row, i.e. one entry fewer than there are rows
Thm_C5 ==
    (Terminal /\ OneBadStart /\ ValidIdx # {}) =>
        /\ pc = "returned"
        /\ \A j \in ValidIdx : Cardinality(ShapesOfRow(compound, j)) = 1
        /\ Len(compound) = Cardinality(ValidIdx)
        /\ \A j \in ValidIdx : Cardinality(SummariesOfRow(j)) = 1
        /\ Len(summaries) = Cardinality(ValidIdx)
        /\ Len(summaries) = Len(rows) - 1

\* the middle one of three rows has the non-numeric start
Wit_C5 ==
    /\ pc = "returned"
    /\ OneBadStart
    /\ Len(rows) = 3
    /\ rows[2].start = NonNumeric
    /\ log[2].exc = "ValueError"
    /\ Len(compound) = 2

\* the next row is a wedge or plate row whose cells parse and whose attach Z
\* (-start) is covered by no segment of post_segments
UncoveredTineNext ==
    /\ pc = "rows"
    /\ row_i < Len(rows)
    /\ LET row == rows[row_i + 1]
       IN  /\ ResolveType(row) \in {"wedge", "plate"}
           /\ ValidRow(row)
           /\ \A s \in 1 .. Len(post_segments) :
                 ~(/\ post_segments[s].z_bot - EPS <= -row.start.v
                   /\ -row.start.v <= post_segments[s].z_top + EPS)

-----------------------------------------------------------------------------
(* stock/heel_cutter.py.  In this part lengths are integers in mm. *)

MaxShapes == 3

MaxIdx == 2

Oversize == 2

YClearBase == 40

XDepthBase == 80

PlaneX == 0

\* a kernel shape of the list passed in, the boolean cut of one, and the
\* None that fills modified_shapes
Shape(j) == [id |-> j, cut |-> FALSE]

CutOf(s) == [id |-> s.id, cut |-> TRUE]

None == [id |-> 0, cut |-> FALSE]

\* Python list indexing: -len <= i < len, negative i counted from the end
PyIndexOk(seq, i) == -Len(seq) <= i /\ i < Len(seq)

PyPos(seq, i) == IF i >= 0 THEN i + 1 ELSE Len(seq) + i + 1

AllIndexOk(seq, idxs) == \A j \in 1 .. Len(idxs) : PyIndexOk(seq, idxs[j])

RECURSIVE MinOf(_)
MinOf(S) ==
    LET x == CHOOSE y \in S : TRUE
    IN  IF S = {x} THEN x ELSE Min2(x, MinOf(S \ {x}))

RECURSIVE MaxOf(_)
MaxOf(S) ==
    LET x == CHOOSE y \in S : TRUE
    IN  IF S = {x} THEN x ELSE Max2(x, MaxOf(S \ {x}))

NoBox == [x_min |-> 0, x_max |-> 0, y_min |-> 0, y_max |-> 0, z_min |-> 0, z_max |-> 0]

\* add_post_half_box: the placed box, or the exception raised
add_post_half_box(z_bottom, z_top, side, oversize, plane_x, kernel_ok) ==
    LET z0 == Min2(z_bottom, z_top)
        z1 == Max2(z_bottom, z_top)
        pad == oversize
        z_len == (z1 - z0) + 2 * pad
        y_len == YClearBase + 2 * pad
        x_len == XDepthBase + 2 * pad
        base_x == IF side = "negX" THEN plane_x - x_len ELSE plane_x
    IN  IF z_len <= 0 THEN [err |-> "ValueError", box |-> NoBox]
        ELSE IF y_len <= 0 \/ x_len <= 0 THEN [err |-> "ValueError", box |-> NoBox]
        ELSE IF ~kernel_ok THEN [err |-> "KernelError", box |-> NoBox]
        ELSE IF side \notin {"negX", "posX"} THEN [err |-> "ValueError", box |-> NoBox]
        ELSE [err |-> "none",
              box |-> [x_min |-> base_x, x_max |-> base_x + x_len,
                       y_min |-> -(y_len \div 2), y_max |-> -(y_len \div 2) + y_len,
                       z_min |-> z0 - pad, z_max |-> z0 - pad + z_len]]

\* add_post_half_box_from_segments sized from the first segment alone
add_post_half_box_from_segments_FirstOnly(segs, side, oversize, plane_x, kernel_ok) ==
    IF segs = <<>> THEN [err |-> "ValueError", box |-> NoBox]
    ELSE add_post_half_box(segs[1].z_bot, segs[1].z_top, side, oversize, plane_x,
                           kernel_ok)

\* add_post_half_box_from_segments
add_post_half_box_from_segments(segs, side, oversize, plane_x, kernel_ok) ==
    IF segs = <<>> THEN [err |-> "ValueError", box |-> NoBox]
    ELSE LET z_bottom == MinOf({segs[j].z_bot : j \in 1 .. Len(segs)})
             z_top == MaxOf({segs[j].z_top : j \in 1 .. Len(segs)})
         IN  add_post_half_box(z_bottom, z_top, side, oversize, plane_x, kernel_ok)

HeelSummary(kind, box, count) ==
    [kind |-> kind, zmin |-> box.z_min, zmax |-> box.z_max, count |-> count]

\* mutant: a failed cut leaves the slot as it was
CutStep_LeavesSlot(mod, shapes, pos, fails) ==
    IF pos \in fails THEN mod ELSE [mod EXCEPT ![pos] = CutOf(shapes[pos])]

\* one pass of the cut loop: the try/except around original_shape.cut
CutStep(mod, shapes, pos, fails) ==
    IF pos \in fails
    THEN [mod EXCEPT ![pos] = shapes[pos]]
    ELSE [mod EXCEPT ![pos] = CutOf(shapes[pos])]

\* the cut loop storing each result at the loop counter, not at shape_idx
RECURSIVE CutLoop_ByCounter(_, _, _, _, _)
CutLoop_ByCounter(mod, shapes, idxs, j, fails) ==
    IF j > Len(idxs) THEN mod
    ELSE CutLoop_ByCounter(
             IF j <= Len(mod)
             THEN [mod EXCEPT ![j] = CutOf(shapes[PyPos(shapes, idxs[j])])]
             ELSE mod,
             shapes, idxs, j + 1, fails)

\* 'for i, shape_idx in enumerate(non_post_shape_indices)' from position j on
RECURSIVE CutLoop(_, _, _, _, _)
CutLoop(mod, shapes, idxs, j, fails) ==
    IF j > Len(idxs) THEN mod
    ELSE CutLoop(CutStep(mod, shapes, PyPos(shapes, idxs[j]), fails),
                 shapes, idxs, j + 1, fails)

\* cut_count after the loop
CutCount(shapes, idxs, fails) ==
    Cardinality({j \in 1 .. Len(idxs) : PyPos(shapes, idxs[j]) \notin fails})

\* mutant: the post shapes are not written back
RestorePosts_Skipped(mod, shapes, idxs, j) == mod

\* 'for shape_idx in post_shape_indices' from position j on
RECURSIVE RestorePosts(_, _, _, _)
RestorePosts(mod, shapes, idxs, j) ==
    IF j > Len(idxs) THEN mod
    ELSE RestorePosts([mod EXCEPT ![PyPos(shapes, idxs[j])] = shapes[PyPos(shapes, idxs[j])]],
                      shapes, idxs, j + 1)

\* mutant: the outer handler catches ValueError only
OuterCatches_ValueErrorOnly(e) == e = "ValueError"

\* the outer 'except Exception'
OuterCatches(e) == TRUE

\* mutant: the outer handler records a summary as well
SkippedSummaries_Appends(sums) == Append(sums, HeelSummary("VisualOnly", NoBox, 0))

\* the summaries list when the outer handler returns
SkippedSummaries(sums) == sums

\* apply_heel_cutter_workflow: whether it raised, the list it returned and
\* the caller's summaries list afterwards.  k.stage names the kernel call
\* that raises ("none" if none does); k.cut_fail holds the positions of the
\* shapes whose cut raises.
apply_heel_cutter_workflow(segs, sums, shapes, post_idx, non_post_idx, k) ==
    LET cutter == add_post_half_box_from_segments(segs, "negX", Oversize, PlaneX,
                                                  k.stage # "cutter")
        skipped(e) ==
            IF OuterCatches(e)
            THEN [raised |-> "none", out |-> shapes, summaries |-> SkippedSummaries(sums)]
            ELSE [raised |-> e, out |-> <<>>, summaries |-> sums]
        visual == [raised |-> "none", out |-> shapes,
                   summaries |-> Append(sums, HeelSummary("VisualOnly", cutter.box, 0))]
        blank == [j \in 1 .. Len(shapes) |-> None]
    IN  IF cutter.err # "none" THEN skipped(cutter.err)
        ELSE IF ~AllIndexOk(shapes, post_idx) \/ ~AllIndexOk(shapes, non_post_idx)
             THEN skipped("IndexError")
        ELSE IF post_idx # <<>> /\ non_post_idx # <<>> THEN
            IF k.stage = "compound" THEN skipped("KernelError")
            ELSE IF k.stage = "smart" THEN visual
            ELSE LET cut == CutLoop(blank, shapes, non_post_idx, 1, k.cut_fail)
                     mod == RestorePosts(cut, shapes, post_idx, 1)
                 IN  [raised |-> "none", out |-> mod,
                      summaries |-> Append(sums,
                          HeelSummary("SmartCut", cutter.box,
                                      CutCount(shapes, non_post_idx, k.cut_fail)))]
        ELSE visual

HeelSegLists ==
    {<<>>,
     <<[kind |-> "cyl", z_bot |-> -4, z_top |-> 0, r_bot |-> RInt(2), r_top |-> RInt(2)]>>,
     <<[kind |-> "cyl", z_bot |-> -4, z_top |-> 0, r_bot |-> RInt(2), r_top |-> RInt(2)],
       [kind |-> "taper", z_bot |-> -8, z_top |-> -4, r_bot |-> RInt(1), r_top |-> RInt(2)]>>}

PriorSummaries == <<[kind |-> "Row", zmin |-> 0, zmax |-> 0, count |-> 0]>>

\* the arguments of one call: n shapes and two index lists over -1 .. n
\* (in range, negative, and one past the end)
HeelInput(segs, n, p, q) ==
    [post_segments |-> segs,
     compound_shapes |-> [j \in 1 .. n |-> Shape(j)],
     post_shape_indices |-> p,
     non_post_shape_indices |-> q,
     summaries |-> PriorSummaries]

\* the kernel's behaviour during one call: the stage whose call raises, or
\* the set of attempted cuts that raise
HeelKernels(shapes, idxs) ==
    {[stage |-> s, cut_fail |-> {}] : s \in {"cutter", "compound", "smart"}}
    \cup {[stage |-> "none", cut_fail |-> f] :
             f \in SUBSET {PyPos(shapes, idxs[j]) :
                              j \in {i \in 1 .. Len(idxs) : PyIndexOk(shapes, idxs[i])}}}

InitHeel ==
    /\ \E segs \in HeelSegLists, n \in 0 .. MaxShapes :
          \E p \in SeqsUpTo(-1 .. n, MaxIdx), q \in SeqsUpTo(-1 .. n, MaxIdx) :
             h_in = HeelInput(segs, n, p, q)
    /\ h_kernel = [stage |-> "none", cut_fail |-> {}]
    /\ h_summaries = h_in.summaries
    /\ h_pc = "call"
    /\ h_out = <<>>
    /\ IdleGeom
    /\ IdleBuild
    /\ IdleBuilders

\* one call of apply_heel_cutter_workflow
ApplyHeelCutter ==
    /\ h_pc = "call"
    /\ \E k \in HeelKernels(h_in.compound_shapes, h_in.non_post_shape_indices) :
          LET res == apply_heel_cutter_workflow(h_in.post_segments, h_summaries,
                         h_in.compound_shapes, h_in.post_shape_indices,
                         h_in.non_post_shape_indices, k)
          IN  /\ h_kernel' = k
              /\ h_pc' = IF res.raised = "none" THEN "returned" ELSE "raised"
              /\ h_out' = res.out
              /\ h_summaries' = res.summaries
    /\ UNCHANGED <<h_in, geomVars, buildVars, builderVars>>

NextHeel == ApplyHeelCutter

SpecHeel == InitHeel /\ [][NextHeel]_vars

-----------------------------------------------------------------------------
(* Claims about the heel-cutter workflow. *)

HeelShapes == h_in.compound_shapes

PostPositions ==
    {PyPos(HeelShapes, h_in.post_shape_indices[j]) :
        j \in {i \in 1 .. Len(h_in.post_shape_indices) :
                  PyIndexOk(HeelShapes, h_in.post_shape_indices[i])}}

NonPostPositions ==
    {PyPos(HeelShapes, h_in.non_post_shape_indices[j]) :
        j \in {i \in 1 .. Len(h_in.non_post_shape_indices) :
                  PyIndexOk(HeelShapes, h_in.non_post_shape_indices[i])}}

IndicesInRange ==
    /\ AllIndexOk(HeelShapes, h_in.post_shape_indices)
    /\ AllIndexOk(HeelShapes, h_in.non_post_shape_indices)

\* every position of the list is named by one of the two index lists
AllTagged == PostPositions \cup NonPostPositions = 1 .. Len(HeelShapes)

\* every entry of the returned list is the solid passed in at that position
\* or its cut
IsSolidList ==
    /\ Len(h_out) = Len(HeelShapes)
    /\ \A j \in 1 .. Len(h_out) : h_out[j] \in {HeelShapes[j], CutOf(HeelShapes[j])}

LastHeelSummary == h_summaries[Len(h_summaries)]

\* the call ended in the branch that built the smart cutter and ran the cuts
SmartCutApplied ==
    /\ h_pc = "returned"
    /\ Len(h_summaries) = Len(h_in.summaries) + 1
    /\ LastHeelSummary.kind = "SmartCut"

\* the basic cutter could not be constructed
CutterFailed == h_in.post_segments = <<>> \/ h_kernel.stage = "cutter"

Thm_C8 ==
    h_pc = "returned" =>
        \A p \in PostPositions : h_out[p] = HeelShapes[p]

\* cuts were applied, and one post position was also listed as non-post
Wit_C8 ==
    /\ SmartCutApplied
    /\ LastHeelSummary.count >= 1
    /\ PostPositions \cap NonPostPositions # {}
    /\ \E p \in NonPostPositions : h_out[p] = CutOf(HeelShapes[p])

\* C9: when the smart cutter is built, every non-post solid (a position in
\* the non-post list and not in the post list) whose cut succeeds is replaced
\* by its cut, each one whose cut throws is kept as passed in, and the
\* summary counts the cuts that succeeded.
Thm_C9 ==
    SmartCutApplied =>
        /\ \A p \in NonPostPositions \ PostPositions :
              h_out[p] = IF p \in h_kernel.cut_fail
                         THEN HeelShapes[p] ELSE CutOf(HeelShapes[p])
        /\ LastHeelSummary.count =
              CutCount(HeelShapes, h_in.non_post_shape_indices, h_kernel.cut_fail)

\* one cut threw and another non-post solid was still cut
Wit_C9 ==
    /\ SmartCutApplied
    /\ \E p, q \in NonPostPositions \ PostPositions :
          /\ p \in h_kernel.cut_fail
          /\ h_out[p] = HeelShapes[p]
          /\ q \notin h_kernel.cut_fail
          /\ h_out[q] = CutOf(HeelShapes[q])

\* C10: when the basic cutter cannot be constructed the call returns the
\* list passed in, unmodified, and the summaries list is as it was.
Thm_C10 ==
    (h_pc # "call" /\ CutterFailed) =>
        /\ h_pc = "returned"
        /\ h_out = HeelShapes
        /\ h_summaries = h_in.summaries

\* the segment list was empty, both index lists were usable, and the call
\* returned
Wit_C10 ==
    /\ h_pc = "returned"
    /\ h_in.post_segments = <<>>
    /\ IndicesInRange
    /\ PostPositions # {}
    /\ NonPostPositions \ PostPositions # {}

-----------------------------------------------------------------------------
(* Claims about the end of build_stock_from_csv, checked under Spec *)

\* C11 as stated: when build_stock has made the compound, the heel-cutter
\* workflow has been called and has returned, and the compound is built from
\* the list it returned.
Orig_C11 ==
    pc = "returned" =>
        /\ h_pc = "returned"
        /\ compound = h_out

-----------------------------------------------------------------------------
(* Component builders: stock/plate_math.py, plate.py, wedge_angled.py,     *)
(* wedge.py, cylinder.py and taper.py.  Lengths are in mm.  A length is a  *)
(* number a + b*sqrt(3) with rational a and b, which holds the sines and   *)
(* cosines of the tilts 0, 30 and 60 degrees exactly.                      *)

RSign(r) == IF r.n > 0 THEN 1 ELSE IF r.n < 0 THEN -1 ELSE 0

Q3(a, b) == [a |-> a, b |-> b]

QR(r) == Q3(r, RInt(0))

QInt(i) == QR(RInt(i))

QAdd(p, q) == Q3(RAdd(p.a, q.a), RAdd(p.b, q.b))

QSub(p, q) == Q3(RSub(p.a, q.a), RSub(p.b, q.b))

QMul(p, q) ==
    Q3(RAdd(RMul(p.a, q.a), RMul(RInt(3), RMul(p.b, q.b))),
       RAdd(RMul(p.a, q.b), RMul(p.b, q.a)))

\* the sign of a + b*sqrt(3)
QSign(q) ==
    LET sa == RSign(q.a)
        sb == RSign(q.b)
        a2 == RMul(q.a, q.a)
        b2 == RMul(RInt(3), RMul(q.b, q.b))
    IN  IF sa >= 0 /\ sb >= 0 THEN (IF sa = 0 /\ sb = 0 THEN 0 ELSE 1)
        ELSE IF sa <= 0 /\ sb <= 0 THEN -1
        ELSE IF sa > 0 THEN RSign(RSub(a2, b2))
        ELSE RSign(RSub(b2, a2))

\* tilts (degrees) whose trigonometry the model holds
Tilts == {0, 30, 60}

\* math.cos(math.radians(th))
Cos(th) ==
    CASE th = 0 -> QInt(1)
      [] th = 30 -> Q3(RInt(0), Rat(1, 2))
      [] th = 60 -> QR(Rat(1, 2))

\* math.tan(math.radians(th))
Tan(th) ==
    CASE th = 0 -> QInt(0)
      [] th = 30 -> Q3(RInt(0), Rat(1, 3))
      [] th = 60 -> Q3(RInt(0), RInt(1))

\* 1.0 / math.cos(math.radians(th))
InvCos(th) ==
    CASE th = 0 -> QInt(1)
      [] th = 30 -> Q3(RInt(0), Rat(2, 3))
      [] th = 60 -> QInt(2)

\* an angle k * atan2(y, x), in radians or degrees, kept unevaluated
Atan2(y, x, unit) == [y |-> y, x |-> x, k |-> 1, unit |-> unit]

AngleTimes(m, a) == [a EXCEPT !.k = m * a.k]

NoAngle == [y |-> QInt(0), x |-> QInt(1), k |-> 0, unit |-> "deg"]

\* a coordinate q + k * sqrt(root): the tip distance of a wedge is a square
\* root that is kept unevaluated
Coord(q, k, root) == [q |-> q, k |-> k, root |-> root]

CQ(q) == Coord(q, 0, QInt(0))

\* sum and difference of two coordinates over the same root
CAdd(c, e) ==
    Coord(QAdd(c.q, e.q), c.k + e.k, IF c.k # 0 THEN c.root ELSE e.root)

CSub(c, e) ==
    Coord(QSub(c.q, e.q), c.k - e.k, IF c.k # 0 THEN c.root ELSE e.root)

\* c # 0 for a coordinate with k in {-1, 0, 1}
CNonZero(c) ==
    IF c.k = 0 THEN QSign(c.q) # 0
    ELSE IF QSign(c.q) = c.k THEN TRUE
    ELSE QSign(QSub(QMul(c.q, c.q), c.root)) # 0

-----------------------------------------------------------------------------
(* stock/plate_math.py *)

\* tangent.strip().lower() on the strings that occur
StripLower(s) ==
    CASE s = " Inside " -> "inside"
      [] s = "CENTER" -> "center"
      [] s = "Outside" -> "outside"
      [] s = " middle" -> "middle"
      [] OTHER -> s

\* mutant: a zero length passes the check
BadPlateArgs_ZeroLengthPasses(radius, length, thickness) ==
    RSign(length) < 0 \/ RSign(radius) <= 0 \/ RSign(thickness) < 0

\* length <= 0 or radius <= 0 or thickness < 0
BadPlateArgs(radius, length, thickness) ==
    RSign(length) <= 0 \/ RSign(radius) <= 0 \/ RSign(thickness) < 0

NoAngles == [err |-> "ValueError", half |-> NoAngle, half_deg |-> NoAngle,
             v |-> NoAngle, v_deg |-> NoAngle]

\* compute_plate_angles(radius, length, thickness, tangent)
compute_plate_angles(radius, length, thickness, tangent) ==
    LET key == StripLower(tangent)
        r_eff == CASE key = "inside" -> radius
                   [] key = "center" -> RAdd(radius, RMul(thickness, Rat(1, 2)))
                   [] key = "outside" -> RAdd(radius, thickness)
                   [] OTHER -> RInt(0)
        half == Atan2(QR(r_eff), QR(length), "rad")
        half_deg == Atan2(QR(r_eff), QR(length), "deg")
    IN  IF BadPlateArgs(radius, length, thickness) THEN NoAngles
        ELSE IF key \notin {"inside", "center", "outside"} THEN NoAngles
        ELSE [err |-> "none", half |-> half, half_deg |-> half_deg,
              v |-> AngleTimes(2, half), v_deg |-> AngleTimes(2, half_deg)]

-----------------------------------------------------------------------------
(* Solids of the tine builders *)

NoRotZ == [on |-> FALSE, px |-> CQ(QInt(0)), py |-> RInt(0), pz |-> 0, angle |-> NoAngle]

RotZ(px, py, pz, angle) == [on |-> TRUE, px |-> px, py |-> py, pz |-> pz, angle |-> angle]

NoRotY == [on |-> FALSE, px |-> RInt(0), pz |-> 0, deg |-> 0]

RotY(px, pz, deg) == [on |-> TRUE, px |-> px, pz |-> pz, deg |-> deg]

NoTrim == [on |-> FALSE, x_max |-> CQ(QInt(0))]

Trim(x_max) == [on |-> TRUE, x_max |-> x_max]

\* Part.makeBox(lx, ly, lz) with Placement.Base = (bx, by, bz)
Box(lx, ly, lz, bx, by, bz) ==
    [lx |-> lx, ly |-> ly, lz |-> lz, bx |-> bx, by |-> by, bz |-> bz,
     rotZ |-> NoRotZ, shift |-> CQ(QInt(0)), rotY |-> NoRotY, trim |-> NoTrim,
     null |-> FALSE]

\* shape.rotate(pivot, Vector(0, 0, 1), angle)
RotateZ(b, px, py, pz, angle) == [b EXCEPT !.rotZ = RotZ(px, py, pz, angle)]

\* shape.translate(Vector(dx, 0, 0))
TranslateX(b, dx) == [b EXCEPT !.shift = dx]

\* shape.rotate(pivot, Vector(0, 1, 0), deg)
RotateY(b, px, pz, deg) == [b EXCEPT !.rotY = RotY(px, pz, deg)]

\* shape.common(trim) with a trim box whose +X face is at x_max; the kernel
\* may hand back a null shape
Common(b, x_max, k) == [b EXCEPT !.trim = Trim(x_max), !.null = (k = "null")]

BuilderFails(e) == [err |-> e, parts |-> <<>>, summary |-> [kind |-> "none", r_at |-> RInt(0)]]

BuilderDone(parts, kind, r) ==
    [err |-> "none", parts |-> parts, summary |-> [kind |-> kind, r_at |-> r]]

\* the float() conversions at the head of build_plate and build_wedge
TineArgs(row) ==
    LET fs == FloatOf(row.start)
        fw == FloatOf(row.width)
        fl == FloatOf(row.length)
        ft == FloatOf(row.plate_thickness)
        fa == AngleOf(row.angle)
    IN  [err |-> FirstErr(<<fs, fw, fl, ft, fa>>), start |-> fs.v, width |-> fw.v,
         length_out |-> fl.v, t |-> ft.v, angle_deg |-> fa.v]

\* try: r = radius_at_func(z_attach) / except: r = 0.0
LookupOrZero(lookup) == IF lookup.ok THEN lookup.r ELSE RInt(0)

-----------------------------------------------------------------------------
(* stock/plate.py *)

PENETRATION_90 == 5

\* the box of the 90-degree branch
Plate90Box(r, length_out, t, width, start) ==
    LET pen == IF PENETRATION_90 > 0 THEN PENETRATION_90 ELSE 0
        eff_len == length_out
    IN  Box(QInt(eff_len), RInt(t), RInt(width),
            CQ(QR(RSub(r, RInt(pen)))), Rat(-t, 2), RInt(-(start + width)))

\* build_plate(row_dict, radius_at_func)
build_plate(row, lookup, k) ==
    LET a == TineArgs(row)
        r == LookupOrZero(lookup)
        sol == compute_plate_angles(r, RInt(a.length_out), RInt(a.t), "inside")
        tilt == 90 - a.angle_deg
        rot_deg == -tilt
        extra == IF Abs(tilt) > 0
                 THEN QMul(QInt(a.width), Tan(Abs(tilt))) ELSE QInt(0)
        eff_len == QAdd(QInt(a.length_out), extra)
        p == RotateY(Box(eff_len, RInt(a.t), RInt(a.width),
                         CQ(QR(r)), Rat(-a.t, 2), RInt(-(a.start + a.width))),
                     r, -a.start, rot_deg)
        x_cut == QAdd(QR(r), QMul(QInt(a.length_out), Cos(Abs(tilt))))
    IN  IF a.err # "none" THEN BuilderFails(a.err)
        ELSE IF a.angle_deg = 90 THEN
            IF sol.err # "none" THEN BuilderFails(sol.err)
            ELSE IF k = "raise" THEN BuilderFails("KernelError")
            ELSE BuilderDone(
                   <<Plate90Box(r, a.length_out, a.t, a.width, a.start)>>,
                   "Plate90", r)
        ELSE IF k = "raise" THEN BuilderFails("KernelError")
        ELSE BuilderDone(<<Common(p, CQ(x_cut), k)>>, "Plate", r)

-----------------------------------------------------------------------------
(* stock/wedge_angled.py *)

\* mutant: both strips on the +y side
VStrips_SameSide(L_in, t, width, start, alpha, root) ==
    LET base_x == Coord(QSub(QInt(0), L_in), 1, root)
        d == Coord(QInt(0), 1, root)
        p == Box(L_in, RInt(t), RInt(width), base_x, RInt(0), RInt(-(start + width)))
    IN  <<RotateZ(p, d, RInt(0), -start, AngleTimes(-1, alpha)),
          RotateZ(p, d, RInt(0), -start, alpha)>>

\* the two strips of the V: boxes of length L_in whose far end is at the tip
\* x = d = sqrt(root), rotated about the tip by -alpha and +alpha
VStrips(L_in, t, width, start, alpha, root) ==
    LET base_x == Coord(QSub(QInt(0), L_in), 1, root)
        d == Coord(QInt(0), 1, root)
        p_top == Box(L_in, RInt(t), RInt(width), base_x, RInt(0), RInt(-(start + width)))
        p_bot == Box(L_in, RInt(t), RInt(width), base_x, RInt(-t), RInt(-(start + width)))
    IN  <<RotateZ(p_top, d, RInt(0), -start, AngleTimes(-1, alpha)),
          RotateZ(p_bot, d, RInt(0), -start, alpha)>>

\* mutant: the plane is measured from the axis, not from the post surface
TipCutX_FromAxis(r, length_out) == QInt(length_out)

\* x_cut = r + length_out
TipCutX(r, length_out) == QAdd(QR(r), QInt(length_out))

\* build_wedge(row_dict, radius_at_func) of wedge_angled.py
wedge_angled_build_wedge(row, lookup, k) ==
    LET a == TineArgs(row)
        r == LookupOrZero(lookup)
        R_eff == RSub(r, RInt(a.t))
        \* 90 degrees
        L90 == QInt(a.length_out)
        root90 == QAdd(QR(RMul(R_eff, R_eff)), QMul(L90, L90))
        alpha90 == Atan2(QR(R_eff), L90, "deg")
        \* angled
        theta_deg == Abs(90 - a.angle_deg)
        E_lead == QR(RMul(RInt(2), r))
        E_trail == QAdd(QMul(QInt(a.length_out), QSub(InvCos(theta_deg), QInt(1))),
                        QMul(QInt(a.width), Tan(theta_deg)))
        L_total == QAdd(QAdd(QInt(a.length_out), E_lead), E_trail)
        L_in == L_total
        root == QAdd(QR(RMul(R_eff, R_eff)), QMul(L_in, L_in))
        alpha == Atan2(QR(R_eff), L_in, "deg")
        v == VStrips(L_in, a.t, a.width, a.start, alpha, root)
        x_pivot_local == Coord(QSub(QInt(0), QAdd(QInt(a.length_out), E_trail)), 1, root)
        dx == CSub(CQ(QR(r)), x_pivot_local)
        rot_deg == -(90 - a.angle_deg)
        x_cut == TipCutX(r, a.length_out)
        placed(b) == RotateY(IF CNonZero(dx) THEN TranslateX(b, dx) ELSE b,
                             r, -a.start, rot_deg)
    IN  IF a.err # "none" THEN BuilderFails(a.err)
        ELSE IF a.angle_deg = 90 THEN
            IF QSign(L90) <= 0 \/ RSign(R_eff) <= 0 THEN BuilderFails("ValueError")
            ELSE IF k = "raise" THEN BuilderFails("KernelError")
            ELSE BuilderDone(VStrips(L90, a.t, a.width, a.start, alpha90, root90),
                             "Wedge90", r)
        ELSE IF QSign(L_in) <= 0 \/ RSign(R_eff) <= 0 THEN BuilderFails("ValueError")
        ELSE IF k = "raise" THEN BuilderFails("KernelError")
        ELSE BuilderDone(<<Common(placed(v[1]), CQ(x_cut), k),
                           Common(placed(v[2]), CQ(x_cut), k)>>,
                         "WedgeAngled-TipCut", r)

-----------------------------------------------------------------------------
(* stock/wedge.py *)

T_END == 2

\* mutant: the strips are rotated by the full V angle
VStripsTipPivot_FullAngle(length_out, t, width, start, alpha, root) ==
    LET base_x == Coord(QInt(-length_out), 1, root)
        d == Coord(QInt(0), 1, root)
        p_top == Box(QInt(length_out), RInt(t), RInt(width),
                     base_x, Rat(t, 2), RInt(-(start + width)))
        p_bot == Box(QInt(length_out), RInt(t), RInt(width),
                     base_x, Rat(-3 * t, 2), RInt(-(start + width)))
    IN  <<RotateZ(p_top, d, Rat(t, 2), -start, AngleTimes(-2, alpha)),
          RotateZ(p_bot, d, Rat(-t, 2), -start, AngleTimes(2, alpha))>>

\* the two strips of the 90-degree branch: inside edges at y = +t/2 and
\* y = -t/2, each rotated about its own tip pivot
VStripsTipPivot(length_out, t, width, start, alpha, root) ==
    LET base_x == Coord(QInt(-length_out), 1, root)
        d == Coord(QInt(0), 1, root)
        p_top == Box(QInt(length_out), RInt(t), RInt(width),
                     base_x, Rat(t, 2), RInt(-(start + width)))
        p_bot == Box(QInt(length_out), RInt(t), RInt(width),
                     base_x, Rat(-3 * t, 2), RInt(-(start + width)))
    IN  <<RotateZ(p_top, d, Rat(t, 2), -start, AngleTimes(-1, alpha)),
          RotateZ(p_bot, d, Rat(-t, 2), -start, alpha)>>

\* x_cut = r + length_out * cos(|tilt|)
TrimX(r, length_out, tilt) ==
    QAdd(QR(r), QMul(QInt(length_out), Cos(Abs(tilt))))

\* build_wedge(row_dict, radius_at_func) of wedge.py
wedge_build_wedge(row, lookup, k) ==
    LET a == TineArgs(row)
        r == LookupOrZero(lookup)
        sol == compute_plate_angles(r, RInt(a.length_out), RInt(a.t), "inside")
        root90 == QR(RAdd(RMul(r, r), RInt(a.length_out * a.length_out)))
        tilt == 90 - a.angle_deg
        rot_deg == -tilt
        extra == IF Abs(tilt) > 0
                 THEN QMul(QInt(a.width), Tan(Abs(tilt))) ELSE QInt(0)
        eff_len == QAdd(QInt(a.length_out), extra)
        bz == RInt(-(a.start + a.width))
        p_top == RotateY(Box(eff_len, RInt(a.t), RInt(a.width), CQ(QR(r)), Rat(a.t, 2), bz),
                         r, -a.start, rot_deg)
        p_bot == RotateY(Box(eff_len, RInt(a.t), RInt(a.width), CQ(QR(r)),
                             Rat(-3 * a.t, 2), bz),
                         r, -a.start, rot_deg)
        x_cut == TrimX(r, a.length_out, tilt)
        strap == Box(QInt(T_END), RInt(3 * a.t), RInt(a.width),
                     CQ(QSub(x_cut, QInt(T_END))), Rat(-3 * a.t, 2), bz)
    IN  IF a.err # "none" THEN BuilderFails(a.err)
        ELSE IF a.angle_deg = 90 THEN
            IF sol.err # "none" THEN BuilderFails(sol.err)
            ELSE IF a.length_out <= 0 THEN BuilderFails("ValueError")
            ELSE IF k = "raise" THEN BuilderFails("KernelError")
            ELSE BuilderDone(VStripsTipPivot(a.length_out, a.t, a.width, a.start,
                                             sol.half_deg, root90),
                             "Wedge90", r)
        ELSE IF k = "raise" THEN BuilderFails("KernelError")
        ELSE BuilderDone(<<Common(p_top, CQ(x_cut), k), Common(p_bot, CQ(x_cut), k), strap>>,
                         "Wedge", r)

-----------------------------------------------------------------------------
(* stock/cylinder.py and stock/taper.py *)

\* Part.makeCylinder / Part.makeCone: base at z = base_z, radius r_base
\* there and r_end at z = base_z + height
PostSolid(kind, base_z, height, r_base, r_end) ==
    [kind |-> kind, base_z |-> base_z, height |-> height,
     r_base |-> r_base, r_end |-> r_end]

\* build_cylinder(row_dict)
build_cylinder(row, k) ==
    LET f0 == FloatOf(row.start)
        f1 == FloatOf(row.end)
        fd == FloatOf(row.diameter_start)
        e == FirstErr(<<f0, f1, fd>>)
        z0 == -f0.v
        z1 == -f1.v
        base_z == Min2(z0, z1)
        height == Abs(z1 - z0)
    IN  IF e # "none" THEN BuilderFails(e)
        ELSE IF k = "raise" THEN BuilderFails("KernelError")
        ELSE BuilderDone(<<PostSolid("cylinder", base_z, height, Rat(fd.v, 2), Rat(fd.v, 2))>>,
                         "Cylinder", RInt(0))

\* build_taper(row_dict)
build_taper(row, k) ==
    LET f0 == FloatOf(row.start)
        f1 == FloatOf(row.end)
        ft == FloatOf(row.diameter_start)
        fb == FloatOf(row.diameter_end)
        e == FirstErr(<<f0, f1, ft, fb>>)
        z0 == -f0.v
        z1 == -f1.v
        height == Abs(z1 - z0)
    IN  IF e # "none" THEN BuilderFails(e)
        ELSE IF k = "raise" THEN BuilderFails("KernelError")
        ELSE BuilderDone(<<PostSolid("cone", z0 - height, height, Rat(fb.v, 2), Rat(ft.v, 2))>>,
                         "Taper", RInt(0))

-----------------------------------------------------------------------------
(* Specification of the component builders: one call of one builder *)

BuilderTineRows ==
    {TineRow("wedge", FALSE, TRUE, Num(2), Num(w), Num(l), Num(t), a) :
        w \in {1, 2}, l \in {0, 3, 8}, t \in {0, 1, 2},
        a \in {Num(90), Num(60), Num(30), Num(120), Missing, NonNumeric}}
    \cup {TineRow("wedge", FALSE, TRUE, NonNumeric, Num(1), Num(3), Num(1), Num(90)),
          TineRow("wedge", FALSE, TRUE, Num(2), Num(1), Missing, Num(1), Num(60))}

\* what radius_at_func does at the attach Z: a radius, or an exception
Lookups ==
    {[ok |-> FALSE, r |-> RInt(0), err |-> "ValueError"]}
    \cup {[ok |-> TRUE, r |-> Rat(n, 2), err |-> "none"] : n \in {3, 4, 6}}

NoLookup == [ok |-> FALSE, r |-> RInt(0), err |-> "none"]

PlateAngleArgs ==
    [radius : {RInt(-1), RInt(0), RInt(2), Rat(3, 2)},
     length : {RInt(-1), RInt(0), RInt(3)},
     thickness : {RInt(-1), RInt(0), RInt(1)},
     tangent : {"inside", " Inside ", "center", "CENTER", "outside", "Outside",
                " middle", ""}]

InitBuilders ==
    /\ b_call = [fn |-> "none"]
    /\ b_pc = "ready"
    /\ b_out = <<>>
    /\ IdleGeom
    /\ IdleBuild
    /\ IdleHeel

Outcome(res) == IF res.err = "none" THEN "returned" ELSE "raised"

CallComputePlateAngles ==
    /\ b_pc = "ready"
    /\ \E a \in PlateAngleArgs :
          LET res == compute_plate_angles(a.radius, a.length, a.thickness, a.tangent)
          IN  /\ b_call' = [fn |-> "compute_plate_angles", radius |-> a.radius,
                            length |-> a.length, thickness |-> a.thickness,
                            tangent |-> a.tangent]
              /\ b_out' = res
              /\ b_pc' = Outcome(res)
    /\ UNCHANGED <<geomVars, buildVars, heelVars>>

\* a call fn(row, radius_at_func) of one of the tine builders
TineCall(fn, row, lookup, k, res) ==
    /\ b_call' = [fn |-> fn, row |-> row, lookup |-> lookup, k |-> k]
    /\ b_out' = res
    /\ b_pc' = Outcome(res)

CallBuildPlate ==
    /\ b_pc = "ready"
    /\ \E row \in BuilderTineRows, lookup \in Lookups, k \in KernelOutcomes :
          TineCall("build_plate", row, lookup, k, build_plate(row, lookup, k))
    /\ UNCHANGED <<geomVars, buildVars, heelVars>>

CallWedgeAngledBuildWedge ==
    /\ b_pc = "ready"
    /\ \E row \in BuilderTineRows, lookup \in Lookups, k \in KernelOutcomes :
          TineCall("wedge_angled.build_wedge", row, lookup, k,
                   wedge_angled_build_wedge(row, lookup, k))
    /\ UNCHANGED <<geomVars, buildVars, heelVars>>

CallWedgeBuildWedge ==
    /\ b_pc = "ready"
    /\ \E row \in BuilderTineRows, lookup \in Lookups, k \in KernelOutcomes :
          TineCall("wedge.build_wedge", row, lookup, k,
                   wedge_build_wedge(row, lookup, k))
    /\ UNCHANGED <<geomVars, buildVars, heelVars>>

CallBuildCylinder ==
    /\ b_pc = "ready"
    /\ \E row \in GeomRows, k \in {"ok", "raise"} :
          TineCall("build_cylinder", row, NoLookup, k, build_cylinder(row, k))
    /\ UNCHANGED <<geomVars, buildVars, heelVars>>

CallBuildTaper ==
    /\ b_pc = "ready"
    /\ \E row \in GeomRows, k \in {"ok", "raise"} :
          TineCall("build_taper", row, NoLookup, k, build_taper(row, k))
    /\ UNCHANGED <<geomVars, buildVars, heelVars>>

\* the arguments add_post_half_box_from_segments is called with
HalfBoxSides == {"negX", "posX", "midX"}

HalfBoxOversizes == {-3, 0, 1, 2}

HalfBoxPlanes == {-5, 0, 7}

CallAddPostHalfBoxFromSegments ==
    /\ b_pc = "ready"
    /\ \E segs \in HeelSegLists, side \in HalfBoxSides, oversize \in HalfBoxOversizes,
          plane_x \in HalfBoxPlanes, kernel_ok \in BOOLEAN :
          LET res == add_post_half_box_from_segments(segs, side, oversize, plane_x,
                                                     kernel_ok)
          IN  /\ b_call' = [fn |-> "add_post_half_box_from_segments",
                            post_segments |-> segs, side |-> side,
                            oversize |-> oversize, plane_x |-> plane_x]
              /\ b_out' = res
              /\ b_pc' = Outcome(res)
    /\ UNCHANGED <<geomVars, buildVars, heelVars>>

NextBuilders ==
    \/ CallAddPostHalfBoxFromSegments
    \/ CallComputePlateAngles
    \/ CallBuildPlate
    \/ CallWedgeAngledBuildWedge
    \/ CallWedgeBuildWedge
    \/ CallBuildCylinder
    \/ CallBuildTaper

SpecBuilders == InitBuilders /\ [][NextBuilders]_vars

-----------------------------------------------------------------------------
(* Claims about the component builders, checked under SpecBuilders *)

Returned(fn) == b_pc = "returned" /\ b_call.fn = fn

CallAngle == AngleOf(b_call.row.angle).v

CallR == LookupOrZero(b_call.lookup)

CallLength == FloatOf(b_call.row.length).v

CallT == FloatOf(b_call.row.plate_thickness).v

\* the +X end of an unrotated box
BoxXMax(b) == CAdd(b.bx, CQ(b.lx))

\* C12 as stated: the box of a 90-degree plate spans X from r - penetration
\* to r + length, so the part outside x = r is as long as the CSV length.
Orig_C12 ==
    (Returned("build_plate") /\ CallAngle = 90) =>
        /\ b_out.parts[1].bx = CQ(QR(RSub(CallR, RInt(PENETRATION_90))))
        /\ BoxXMax(b_out.parts[1]) = CQ(QAdd(QR(CallR), QInt(CallLength)))

\* both strips of the returned wedge are cut by the plane x = x_cut
StripsCutAt(x_cut) ==
    /\ Len(b_out.parts) >= 2
    /\ \A j \in 1 .. 2 :
          /\ b_out.parts[j].trim.on
          /\ b_out.parts[j].trim.x_max = CQ(x_cut)

AngledWedgeReturned ==
    /\ b_pc = "returned"
    /\ b_call.fn \in {"wedge_angled.build_wedge", "wedge.build_wedge"}
    /\ CallAngle # 90

\* C13 as stated: every angled wedge has both strips cut at x_cut with
\* x_cut - r equal to the CSV length.
Orig_C13 ==
    AngledWedgeReturned => StripsCutAt(QAdd(QR(CallR), QInt(CallLength)))

\* C13: build_wedge of wedge_angled.py cuts both strips of an angled wedge
\* at x_cut = r + length; build_wedge of wedge.py cuts them at
\* x_cut = r + length * cos(|90 - angle|).
Thm_C13 ==
    /\ (Returned("wedge_angled.build_wedge") /\ CallAngle # 90) =>
          /\ Len(b_out.parts) = 2
          /\ StripsCutAt(QAdd(QR(CallR), QInt(CallLength)))
    /\ (Returned("wedge.build_wedge") /\ CallAngle # 90) =>
          /\ Len(b_out.parts) = 3
          /\ StripsCutAt(QAdd(QR(CallR),
                              QMul(QInt(CallLength), Cos(Abs(90 - CallAngle)))))
          /\ ~b_out.parts[3].trim.on

\* an angled wedge of wedge_angled.py, tilted by 60 degrees on a post of
\* radius 2, came back with both strips cut
Wit_C13 ==
    /\ Returned("wedge_angled.build_wedge")
    /\ CallAngle = 30
    /\ CallR = RInt(2)
    /\ CallLength = 8
    /\ b_out.parts[1].trim.x_max = CQ(QInt(10))
    /\ ~b_out.parts[1].null

Wedge90Returned ==
    /\ b_pc = "returned"
    /\ b_call.fn \in {"wedge_angled.build_wedge", "wedge.build_wedge"}
    /\ CallAngle = 90

RNeg(x) == RSub(RInt(0), x)

\* box bot is box top mirrored across the plane y = 0, rotation included
MirrorAcrossY0(top, bot) ==
    /\ bot.lx = top.lx /\ bot.ly = top.ly /\ bot.lz = top.lz
    /\ bot.bx = top.bx /\ bot.bz = top.bz
    /\ bot.by = RNeg(RAdd(top.by, top.ly))
    /\ top.rotZ.on /\ bot.rotZ.on
    /\ bot.rotZ.px = top.rotZ.px /\ bot.rotZ.pz = top.rotZ.pz
    /\ bot.rotZ.py = RNeg(top.rotZ.py)
    /\ bot.rotZ.angle = AngleTimes(-1, top.rotZ.angle)

\* C14: a 90-degree wedge comes back as exactly two strips, neither trimmed
\* nor tilted, of identical size, mirror images across y = 0, the top one
\* rotated about Z by -alpha and the bottom one by +alpha.
Thm_C14 ==
    Wedge90Returned =>
        /\ Len(b_out.parts) = 2
        /\ \A j \in 1 .. 2 :
              /\ ~b_out.parts[j].trim.on
              /\ ~b_out.parts[j].rotY.on
              /\ b_out.parts[j].shift = CQ(QInt(0))
        /\ MirrorAcrossY0(b_out.parts[1], b_out.parts[2])
        /\ b_out.parts[1].rotZ.angle.k = -1
        /\ b_out.parts[2].rotZ.angle.k = 1

\* a 90-degree wedge of thickness 1 on a post of radius 2 was built by
\* wedge_angled.py
Wit_C14 ==
    /\ Returned("wedge_angled.build_wedge")
    /\ CallAngle = 90
    /\ CallR = RInt(2)
    /\ CallT = 1
    /\ CallLength = 3
    /\ b_out.parts[1].by = RInt(0)
    /\ b_out.parts[2].by = RInt(-1)

\* the half-angle the bottom strip of the returned wedge is rotated by
WedgeAlpha == b_out.parts[2].rotZ.angle

\* the square of the tip distance d of the returned wedge
WedgeTipSq == b_out.parts[2].rotZ.px.root

\* (radius)^2 + length^2
SumSq(radius, length) == QR(RAdd(RMul(radius, radius), RInt(length * length)))

\* C15 as stated: alpha is the solver's inside half-angle for radius r and
\* the CSV length, while d*d = (r - thickness)^2 + length^2.
Orig_C15 ==
    Wedge90Returned =>
        /\ WedgeAlpha = Atan2(QR(CallR), QInt(CallLength), "deg")
        /\ WedgeTipSq = SumSq(RSub(CallR, RInt(CallT)), CallLength)

\* C15: each builder takes alpha and d from one and the same radius:
\* wedge_angled.py from R_eff = r - thickness (alpha = atan2(R_eff, length),
\* d*d = R_eff^2 + length^2), wedge.py from r (alpha is the solver's inside
\* half-angle for radius r, d*d = r^2 + length^2).
Thm_C15 ==
    /\ (Returned("wedge_angled.build_wedge") /\ CallAngle = 90) =>
          /\ WedgeAlpha = Atan2(QR(RSub(CallR, RInt(CallT))), QInt(CallLength), "deg")
          /\ WedgeTipSq = SumSq(RSub(CallR, RInt(CallT)), CallLength)
    /\ (Returned("wedge.build_wedge") /\ CallAngle = 90) =>
          /\ WedgeAlpha = Atan2(QR(CallR), QInt(CallLength), "deg")
          /\ WedgeAlpha =
                compute_plate_angles(CallR, RInt(CallLength), RInt(CallT), "inside").half_deg
          /\ WedgeTipSq = SumSq(CallR, CallLength)

\* wedge.py built a 90-degree wedge of thickness 1 and length 3 on a post
\* of radius 2: d*d = 13
Wit_C15 ==
    /\ Returned("wedge.build_wedge")
    /\ CallAngle = 90
    /\ CallR = RInt(2)
    /\ CallT = 1
    /\ CallLength = 3
    /\ WedgeTipSq = QInt(13)

AnglesCalled == b_pc # "ready" /\ b_call.fn = "compute_plate_angles"

\* the tangent edge a key names once trimmed and lower-cased
TangentEdge ==
    CASE b_call.tangent \in {"inside", " Inside "} -> "inside"
      [] b_call.tangent \in {"center", "CENTER"} -> "center"
      [] b_call.tangent \in {"outside", "Outside"} -> "outside"
      [] OTHER -> "invalid"

EffectiveRadius ==
    CASE TangentEdge = "inside" -> b_call.radius
      [] TangentEdge = "center" -> RAdd(b_call.radius, RMul(b_call.thickness, Rat(1, 2)))
      [] TangentEdge = "outside" -> RAdd(b_call.radius, b_call.thickness)

\* C16: compute_plate_angles raises its ValueError exactly when length <= 0,
\* radius <= 0, thickness < 0 or the tangent key is not inside, center or
\* outside; otherwise half_angle = atan2(R_eff, length) with R_eff = R,
\* R + thickness/2 or R + thickness, and v_angle is twice half_angle.
Thm_C16 ==
    AnglesCalled =>
        /\ b_pc = "raised" <=>
              \/ RSign(b_call.length) <= 0
              \/ RSign(b_call.radius) <= 0
              \/ RSign(b_call.thickness) < 0
              \/ TangentEdge = "invalid"
        /\ b_pc = "raised" => b_out.err = "ValueError"
        /\ b_pc = "returned" =>
              /\ b_out.half = Atan2(QR(EffectiveRadius), QR(b_call.length), "rad")
              /\ b_out.half_deg = Atan2(QR(EffectiveRadius), QR(b_call.length), "deg")
              /\ b_out.v = AngleTimes(2, b_out.half)
              /\ b_out.v_deg = AngleTimes(2, b_out.half_deg)

\* the call with key 'CENTER', radius 3/2 and thickness 1 returned the
\* half-angle atan2(2, 3)
Wit_C16 ==
    /\ AnglesCalled
    /\ b_pc = "returned"
    /\ b_call.tangent = "CENTER"
    /\ b_call.radius = Rat(3, 2)
    /\ b_call.thickness = RInt(1)
    /\ b_out.half.y = QInt(2)
    /\ b_out.v.k = 2

\* a cylinder row went through build_cylinder, or a taper row through
\* build_taper, and the builder returned
PostRowBuilt ==
    /\ b_pc = "returned"
    /\ \/ b_call.fn = "build_cylinder" /\ Lower(b_call.row.type) = "cylinder"
       \/ b_call.fn = "build_taper" /\ Lower(b_call.row.type) = "taper"

\* the PostSegment append_post_segment_from_row appends for the row
SegmentOfCall == append_post_segment_from_row(<<>>, b_call.row).segments[1]

\* C17 as stated: for every cylinder or taper row, whichever of start and
\* end is larger, the solid's Z extent [base, base + height] is the
\* segment's [z_bot, z_top] and its end radii are the segment's.
Orig_C17 ==
    PostRowBuilt =>
        /\ b_out.parts[1].base_z = SegmentOfCall.z_bot
        /\ b_out.parts[1].base_z + b_out.parts[1].height = SegmentOfCall.z_top
        /\ b_out.parts[1].r_base = SegmentOfCall.r_bot
        /\ b_out.parts[1].r_end = SegmentOfCall.r_top

-----------------------------------------------------------------------------
(* Claims about the post segment list, checked under Spec *)

SegmentsWellFormed(segs) ==
    \A j \in 1 .. Len(segs) :
        /\ segs[j].z_bot <= segs[j].z_top
        /\ segs[j].kind = "cyl" => segs[j].r_bot = segs[j].r_top

\* C18: after any sequence of processed rows every post segment has
\* z_bot <= z_top and every cylinder segment has r_bot = r_top.
Thm_C18 == SegmentsWellFormed(post_segments)

\* the list holds a cylinder, a taper given top first and a taper given
\* bottom first
Wit_C18 ==
    /\ Len(post_segments) = 3
    /\ \E j \in 1 .. 3 : post_segments[j].kind = "cyl"
    /\ \E j \in 1 .. 3 :
          /\ post_segments[j].kind = "taper"
          /\ FloatOf(rows[j].start).v < FloatOf(rows[j].end).v
    /\ \E j \in 1 .. 3 :
          /\ post_segments[j].kind = "taper"
          /\ FloatOf(rows[j].start).v > FloatOf(rows[j].end).v
          /\ post_segments[j].z_bot < post_segments[j].z_top

\* the step consumed one row
RowStep == row_i' = row_i + 1

PostRowStep == RowStep /\ ResolveType(rows[row_i']) \in {"cylinder", "taper"}

\* C19: the post segment list is append-only: a step keeps every entry in
\* place and adds at most one at the end; it adds one exactly when it
\* processes a cylinder or taper row without an exception; plate, wedge and
\* unknown rows (radius lookups included) leave the list as it was.
Thm_C19 ==
    [][/\ Len(post_segments') \in {Len(post_segments), Len(post_segments) + 1}
       /\ SubSeq(post_segments', 1, Len(post_segments)) = post_segments
       /\ Len(post_segments') = Len(post_segments) + 1 <=>
             /\ PostRowStep
             /\ Len(log') = row_i'
             /\ log'[row_i'].exc = "none"]_vars

\* a cylinder, a wedge whose radius lookup succeeded and a taper were
\* processed in this order: two segments, in row order
Wit_C19 ==
    /\ row_i = 3
    /\ ResolveType(rows[1]) = "cylinder"
    /\ ResolveType(rows[2]) = "wedge"
    /\ ResolveType(rows[3]) = "taper"
    /\ log[2].exc = "none" /\ ~log[2].radius_fail
    /\ Len(post_segments) = 2
    /\ post_segments[1].kind = "cyl"
    /\ post_segments[2].kind = "taper"
    /\ Len(compound_shapes) = 3

-----------------------------------------------------------------------------
(* Claims about degenerate trim results, checked under Spec *)

\* C20: when the trim intersection of an angled plate or wedge row comes
\* back null, the row raises nothing, its null solid is in the solid list
\* with its summary, and the compound, once made, contains it.
Thm_C20 ==
    \A i \in 1 .. Len(log) :
        log[i].trim_null =>
            /\ log[i].exc = "none"
            /\ \E j \in 1 .. Len(compound_shapes) :
                  compound_shapes[j].row = i /\ compound_shapes[j].null
            /\ \E j \in 1 .. Len(summaries) : summaries[j].row = i
            /\ pc = "returned" =>
                  \E j \in 1 .. Len(compound) :
                      compound[j].row = i /\ compound[j].null

\* the compound was made of a cylinder and an angled plate whose trim came
\* back null
Wit_C20 ==
    /\ pc = "returned"
    /\ Len(log) = 2
    /\ ~log[1].trim_null
    /\ log[2].trim_null
    /\ Len(compound) = 2
    /\ compound[2].null
    /\ compound[2].tilt # 0

-----------------------------------------------------------------------------
(* The heel-cutter box, checked under SpecBuilders *)

HalfBoxReturned == Returned("add_post_half_box_from_segments")

HalfBoxZBots == {b_call.post_segments[j].z_bot : j \in 1 .. Len(b_call.post_segments)}

HalfBoxZTops == {b_call.post_segments[j].z_top : j \in 1 .. Len(b_call.post_segments)}

HalfBoxXLen == XDepthBase + 2 * b_call.oversize

\* C21: the cutter box placed in the document spans Z from
\* min(z_bot) - oversize to max(z_top) + oversize over all segments, and its
\* inner face is on x = plane_x: [plane_x - x_len, plane_x] for side negX,
\* [plane_x, plane_x + x_len] for side posX.
Thm_C21 ==
    HalfBoxReturned =>
        /\ b_out.box.z_min = MinOf(HalfBoxZBots) - b_call.oversize
        /\ b_out.box.z_max = MaxOf(HalfBoxZTops) + b_call.oversize
        /\ b_call.side = "negX" =>
              /\ b_out.box.x_min = b_call.plane_x - HalfBoxXLen
              /\ b_out.box.x_max = b_call.plane_x
        /\ b_call.side = "posX" =>
              /\ b_out.box.x_min = b_call.plane_x
              /\ b_out.box.x_max = b_call.plane_x + HalfBoxXLen
        /\ b_call.side \in {"negX", "posX"}

\* a box on the +X side of a plane away from 0, sized from two segments with
\* a non-zero oversize
Wit_C21 ==
    /\ HalfBoxReturned
    /\ Len(b_call.post_segments) = 2
    /\ b_call.side = "posX"
    /\ b_call.plane_x = 7
    /\ b_call.oversize = 2
    /\ b_out.box.z_min = -10
    /\ b_out.box.z_max = 2
    /\ b_out.box.x_min = 7
    /\ b_out.box.x_max = 91

-----------------------------------------------------------------------------
(* stock/io.py: read_stock_csv_sectioned *)

MaxLines == 3

\* str.strip() on the cells that occur
CellStrip(c) ==
    CASE c = "  " -> ""
      [] c = " # note" -> "# note"
      [] c = " META" -> "META"
      [] c = " Start " -> "Start"
      [] c = " v1 " -> "v1"
      [] c = " x" -> "x"
      [] c = "y " -> "y"
      [] c = " 2 " -> "2"
      [] OTHER -> c

\* str.lower() on the stripped cells that occur
CellLower(c) ==
    CASE c = "META" -> "meta"
      [] c = "Start" -> "start"
      [] c = "Wedge" -> "wedge"
      [] c = "Boat_Name" -> "boat_name"
      [] OTHER -> c

\* str.startswith("#")
StartsWithHash(c) == c \in {"#note", "# note"}

\* [c.strip().lower() for c in row]
Lowered(row) == [j \in 1 .. Len(row) |-> CellLower(CellStrip(row[j]))]

EmptyDict == [k \in {} |-> ""]

\* dict.get(key, "")
DictGet(d, key) == IF key \in DOMAIN d THEN d[key] ELSE ""

\* d[key] = value
DictSet(d, key, value) ==
    [k \in DOMAIN d \cup {key} |-> IF k = key THEN value ELSE d[k]]

\* {k: v.strip() for k, v in zip(current_header, row)}: zip stops at the
\* shorter list and a repeated key keeps its last value
ZipDict(header, row) ==
    LET n == Min2(Len(header), Len(row))
        last(k) == CHOOSE j \in 1 .. n :
                       /\ header[j] = k
                       /\ \A i \in j + 1 .. n : header[i] # k
    IN  [k \in {header[j] : j \in 1 .. n} |-> CellStrip(row[last(k)])]

\* the blank/comment test of line 23
SkipsLine(row) ==
    \/ row = <<>>
    \/ \A j \in 1 .. Len(row) : CellStrip(row[j]) = ""
    \/ StartsWithHash(CellStrip(row[1]))

\* a meta line of any length stores its key
MetaUpdate_AnyLength(meta, row) ==
    IF Len(row) >= 3 THEN DictSet(meta, CellLower(CellStrip(row[2])), CellStrip(row[3]))
    ELSE IF Len(row) = 2 THEN DictSet(meta, CellLower(CellStrip(row[2])), "")
    ELSE meta

\* lines 28-29
MetaUpdate(meta, row) ==
    IF Len(row) >= 3 THEN DictSet(meta, CellLower(CellStrip(row[2])), CellStrip(row[3]))
    ELSE meta

\* lines 43-48: the row dict of a data line
RowDict(current_header, row) ==
    LET row_dict == ZipDict(current_header, row)
        shape_type == CellLower(CellStrip(DictGet(row_dict, "type")))
    IN  IF shape_type = "" /\ \E j \in 1 .. Len(current_header) : current_header[j] = "wedge"
        THEN DictSet(row_dict, "type", "wedge")
        ELSE row_dict

\* one iteration of the reader loop on the state st = (rows, meta, current_header)
ReadStockRow(st, row) ==
    IF SkipsLine(row) THEN st
    ELSE IF CellLower(CellStrip(row[1])) = "meta"
         THEN [st EXCEPT !.meta = MetaUpdate(st.meta, row)]
    ELSE IF \E j \in 1 .. Len(row) : Lowered(row)[j] = "start"
         THEN [st EXCEPT !.current_header = Lowered(row)]
    ELSE IF st.current_header = <<>> THEN st
    ELSE [st EXCEPT !.rows = Append(st.rows, RowDict(st.current_header, row))]

\* the lines csv.reader yields
StockLines ==
    {<<>>,
     <<"  ", "">>,
     <<"#note", "start">>,
     <<" # note">>,
     <<"meta", "Boat_Name", " v1 ">>,
     <<" META", "start", "5">>,
     <<"meta", "Boat_Name">>,
     <<"type", "start", "label">>,
     <<"wedge", " Start ", "label">>,
     <<"start", "wedge">>,
     <<"cylinder", "5", "p1">>,
     <<"Wedge", "5", "t1">>,
     <<"5">>,
     <<"", "5", "x">>,
     <<"cylinder", "5", "p1", "extra">>}

-----------------------------------------------------------------------------
(* outline/csv_io.py: read_transform_csv *)

\* str.upper() on the stripped cells that occur
CellUpper(c) ==
    CASE c = "x" -> "X"
      [] c = "y" -> "Y"
      [] OTHER -> c

\* float(cell): the number, or ValueError
ParseFloat(c) ==
    CASE c = "0" -> [ok |-> TRUE, v |-> 0]
      [] c = "1" -> [ok |-> TRUE, v |-> 1]
      [] c = "-3" -> [ok |-> TRUE, v |-> -3]
      [] c = " 2 " -> [ok |-> TRUE, v |-> 2]
      [] OTHER -> [ok |-> FALSE, v |-> 0]

\* the except clause of line 32
SkipsBadRow(e) == e = "ValueError"

\* lines 28-34 on the state st = (pts, reading, err)
TryPoint(st, row) ==
    LET x_csv == ParseFloat(row[1])
        raised == IF ~x_csv.ok THEN "ValueError"
                  ELSE IF Len(row) < 2 THEN "IndexError"
                  ELSE IF ~ParseFloat(row[2]).ok THEN "ValueError"
                  ELSE "none"
    IN  IF raised = "none"
        THEN [st EXCEPT !.pts = Append(@, <<x_csv.v, -ParseFloat(row[2]).v>>)]
        ELSE IF SkipsBadRow(raised) THEN st
        ELSE [st EXCEPT !.err = raised]

\* one iteration of the reader loop, lines 22-34
ReadTransformRow(st, row) ==
    IF row = <<>> \/ StartsWithHash(CellStrip(row[1])) THEN st
    ELSE IF CellUpper(CellStrip(row[1])) = "X" /\ Len(row) < 2
         THEN [st EXCEPT !.err = "IndexError"]
    ELSE IF CellUpper(CellStrip(row[1])) = "X" /\ CellUpper(CellStrip(row[2])) = "Y"
         THEN [st EXCEPT !.reading = TRUE]
    ELSE IF st.reading THEN TryPoint(st, row)
    ELSE st

\* the rows csv.reader yields
TransformLines ==
    {<<>>,
     <<"#note", "1">>,
     <<"X", "Y">>,
     <<" x", "y ">>,
     <<"X">>,
     <<"X", "1">>,
     <<"0", "0">>,
     <<"1", " 2 ">>,
     <<"-3", "1">>,
     <<"bad", "1">>,
     <<"1", "bad">>,
     <<"1">>,
     <<"1", "-3", "0">>}

-----------------------------------------------------------------------------
(* outline/geometry.py: close_loop and slice_chords.  A point is <<x, z>>. *)

MaxPts == 3

MaxLevels == 2

\* close_loop: the new list returned, and the caller's list afterwards
close_loop(points) ==
    [loop |-> IF points = <<>> THEN <<>>
              ELSE IF points[1] = points[Len(points)] THEN points
              ELSE Append(points, points[1]),
     points |-> points]

\* line 41
CrossesLevel(p1, p2, z) == (p1[2] - z) * (p2[2] - z) < 0

\* lines 42-44
IntersectAt(p1, p2, z) ==
    LET t == Rat(z - p1[2], p2[2] - p1[2])
        x == RAdd(RInt(p1[1]), RMul(t, RInt(p2[1] - p1[1])))
    IN  <<x, z>>

\* lines 37-44: the intersections of the level z with the edges i, i+1, ...
RECURSIVE Intersects(_, _, _)
Intersects(loop, z, i) ==
    IF i > Len(loop) - 1 THEN <<>>
    ELSE IF CrossesLevel(loop[i], loop[i + 1], z)
         THEN <<IntersectAt(loop[i], loop[i + 1], z)>> \o Intersects(loop, z, i + 1)
    ELSE Intersects(loop, z, i + 1)

\* a chord emitted whenever at least two edges cross
EmitsChord_AtLeastTwo(intersects) == Len(intersects) >= 2

\* line 45
EmitsChord(intersects) == Len(intersects) = 2

\* lines 35-46: the chords of the levels j, j+1, ...
RECURSIVE ChordsFrom(_, _, _)
ChordsFrom(loop, z_levels, j) ==
    IF j > Len(z_levels) THEN <<>>
    ELSE LET intersects == Intersects(loop, z_levels[j], 1)
         IN  (IF EmitsChord(intersects) THEN << <<intersects[1], intersects[2]>> >>
              ELSE <<>>) \o ChordsFrom(loop, z_levels, j + 1)

slice_chords(points, z_levels) ==
    LET closed == close_loop(points)
    IN  [err |-> "none", chords |-> ChordsFrom(closed.loop, z_levels, 1),
         points |-> closed.points]

OutlineX == {0, 4}

OutlineZ == {0, 2, 3}

\* outlines up to MaxPts points on a grid, a closed rectangle and a W
Outlines ==
    SeqsUpTo(OutlineX \X OutlineZ, MaxPts)
    \cup {<< <<0, 0>>, <<4, 0>>, <<4, 2>>, <<0, 2>> >>,
          << <<0, 0>>, <<4, 0>>, <<4, 2>>, <<0, 2>>, <<0, 0>> >>,
          << <<0, 0>>, <<1, 2>>, <<2, 0>>, <<3, 2>>, <<4, 0>> >>}

\* levels inside, on a vertex row and outside the outlines
Levels == {0, 1, 2, 5}

-----------------------------------------------------------------------------
(* Specification of the file readers: b_call holds the lines read so far, *)
(* b_out the reader's local state                                         *)

InitIO ==
    /\ b_call = [fn |-> "none"]
    /\ b_pc = "ready"
    /\ b_out = <<>>
    /\ IdleGeom
    /\ IdleBuild
    /\ IdleHeel

\* lines 15-20
StockCsvOpen ==
    /\ b_pc = "ready"
    /\ b_call' = [fn |-> "read_stock_csv_sectioned", lines |-> <<>>]
    /\ b_out' = [rows |-> <<>>, meta |-> EmptyDict, current_header |-> <<>>]
    /\ b_pc' = "reading"
    /\ UNCHANGED <<geomVars, buildVars, heelVars>>

\* lines 21-50: the loop body on the next line of the file
StockCsvLine ==
    /\ b_pc = "reading"
    /\ b_call.fn = "read_stock_csv_sectioned"
    /\ Len(b_call.lines) < MaxLines
    /\ \E row \in StockLines :
          /\ b_call' = [b_call EXCEPT !.lines = Append(@, row)]
          /\ b_out' = ReadStockRow(b_out, row)
    /\ UNCHANGED <<b_pc, geomVars, buildVars, heelVars>>

\* line 52
StockCsvReturn ==
    /\ b_pc = "reading"
    /\ b_call.fn = "read_stock_csv_sectioned"
    /\ b_pc' = "returned"
    /\ UNCHANGED <<b_call, b_out, geomVars, buildVars, heelVars>>

\* lines 17-20
TransformCsvOpen ==
    /\ b_pc = "ready"
    /\ b_call' = [fn |-> "read_transform_csv", lines |-> <<>>]
    /\ b_out' = [pts |-> <<>>, reading |-> FALSE, err |-> "none"]
    /\ b_pc' = "reading"
    /\ UNCHANGED <<geomVars, buildVars, heelVars>>

\* lines 21-34: the loop body on the next row of the file
TransformCsvLine ==
    /\ b_pc = "reading"
    /\ b_call.fn = "read_transform_csv"
    /\ Len(b_call.lines) < MaxLines
    /\ \E row \in TransformLines :
          /\ b_call' = [b_call EXCEPT !.lines = Append(@, row)]
          /\ b_out' = ReadTransformRow(b_out, row)
          /\ b_pc' = IF b_out'.err = "none" THEN "reading" ELSE "raised"
    /\ UNCHANGED <<geomVars, buildVars, heelVars>>

\* line 35
TransformCsvReturn ==
    /\ b_pc = "reading"
    /\ b_call.fn = "read_transform_csv"
    /\ b_pc' = "returned"
    /\ UNCHANGED <<b_call, b_out, geomVars, buildVars, heelVars>>

\* one call of slice_chords
CallSliceChords ==
    /\ b_pc = "ready"
    /\ \E points \in Outlines, z_levels \in SeqsUpTo(Levels, MaxLevels) :
          LET res == slice_chords(points, z_levels)
          IN  /\ b_call' = [fn |-> "slice_chords", points |-> points,
                            z_levels |-> z_levels]
              /\ b_out' = res
              /\ b_pc' = Outcome(res)
    /\ UNCHANGED <<geomVars, buildVars, heelVars>>

NextIO ==
    \/ StockCsvOpen
    \/ StockCsvLine
    \/ StockCsvReturn
    \/ TransformCsvOpen
    \/ TransformCsvLine
    \/ TransformCsvReturn
    \/ CallSliceChords

SpecIO == InitIO /\ [][NextIO]_vars

-----------------------------------------------------------------------------
(* Claims about the readers, checked under SpecIO *)

ReadingStock == b_pc = "reading" /\ b_call.fn = "read_stock_csv_sectioned"

\* the step that reads one line of the stock CSV, and that line
StockLineStep == ReadingStock /\ Len(b_call'.lines) = Len(b_call.lines) + 1

LineRead == b_call'.lines[Len(b_call'.lines)]

HasCell(row, c) == \E j \in 1 .. Len(row) : CellLower(CellStrip(row[j])) = c

\* the claim's classes of a line, in its order
DroppedLine(row) ==
    \/ row = <<>>
    \/ \A j \in 1 .. Len(row) : CellStrip(row[j]) = ""
    \/ StartsWithHash(CellStrip(row[1]))

MetaLine(row) == ~DroppedLine(row) /\ CellLower(CellStrip(row[1])) = "meta"

HeaderLine(row) == ~DroppedLine(row) /\ ~MetaLine(row) /\ HasCell(row, "start")

DataLine(row) == ~DroppedLine(row) /\ ~MetaLine(row) /\ ~HeaderLine(row)

SameRows == b_out'.rows = b_out.rows

SameMeta == b_out'.meta = b_out.meta

SameHeader == b_out'.current_header = b_out.current_header

NewRow == b_out'.rows[Len(b_out'.rows)]

OneRowMore ==
    /\ Len(b_out'.rows) = Len(b_out.rows) + 1
    /\ SubSeq(b_out'.rows, 1, Len(b_out.rows)) = b_out.rows

\* the new row pairs the cells of the line with the most recent header
KeyedByHeader(header, row, d) ==
    LET n == Min2(Len(header), Len(row))
    IN  /\ DOMAIN d \ {"type"} = {header[j] : j \in 1 .. n} \ {"type"}
        /\ \A j \in 1 .. n :
              (header[j] # "type" /\ \A i \in j + 1 .. n : header[i] # header[j])
                  => d[header[j]] = CellStrip(row[j])

\* C22 as stated: every meta line that names a key stores it in meta, and
\* every row read under a header with a 'wedge' column has a 'wedge' key.
Orig_C22 ==
    [][StockLineStep =>
        /\ (MetaLine(LineRead) /\ Len(LineRead) >= 2)
              => CellLower(CellStrip(LineRead[2])) \in DOMAIN b_out'.meta
        /\ (DataLine(LineRead) /\ HasCell(b_out.current_header, "wedge"))
              => "wedge" \in DOMAIN NewRow]_vars

\* C22: each line is classified in this order.  A blank or '#' line changes
\* nothing.  A line whose first cell is 'meta' (trimmed, any case) yields no
\* row and sets meta[lower-cased key] = trimmed value only if it has at
\* least three cells.  A line with a cell 'start' (trimmed, any case)
\* becomes the current header in lower case and yields no row.  Every other
\* line yields no row before the first header and otherwise exactly one row,
\* appended last, that pairs the header's names with the line's trimmed
\* cells up to the shorter of the two; an explicit type is kept, and a row
\* with no type under a header that has a 'wedge' column gets type 'wedge'.
Thm_C22 ==
    [][StockLineStep =>
        /\ DroppedLine(LineRead) => SameRows /\ SameMeta /\ SameHeader
        /\ MetaLine(LineRead) =>
              /\ SameRows /\ SameHeader
              /\ IF Len(LineRead) >= 3
                 THEN /\ b_out'.meta[CellLower(CellStrip(LineRead[2]))]
                            = CellStrip(LineRead[3])
                      /\ \A k \in DOMAIN b_out.meta \ {CellLower(CellStrip(LineRead[2]))} :
                            b_out'.meta[k] = b_out.meta[k]
                 ELSE SameMeta
        /\ HeaderLine(LineRead) =>
              /\ SameRows /\ SameMeta
              /\ b_out'.current_header = Lowered(LineRead)
        /\ DataLine(LineRead) =>
              /\ SameMeta /\ SameHeader
              /\ IF b_out.current_header = <<>> THEN SameRows
                 ELSE /\ OneRowMore
                      /\ KeyedByHeader(b_out.current_header, LineRead, NewRow)
                      /\ IF "type" \in DOMAIN ZipDict(b_out.current_header, LineRead)
                            /\ ZipDict(b_out.current_header, LineRead)["type"] # ""
                         THEN NewRow["type"]
                                  = ZipDict(b_out.current_header, LineRead)["type"]
                         ELSE IF HasCell(b_out.current_header, "wedge")
                              THEN NewRow["type"] = "wedge"
                              ELSE "type" \in DOMAIN NewRow => NewRow["type"] = ""]_vars

\* a file with a meta line, a wedge header and a wedge row was read to its
\* end: one meta entry and one row, keyed by the header, with type 'wedge'
Wit_C22 ==
    /\ b_pc = "returned"
    /\ b_call.fn = "read_stock_csv_sectioned"
    /\ b_call.lines = << <<"meta", "Boat_Name", " v1 ">>,
                         <<"wedge", " Start ", "label">>,
                         <<"Wedge", "5", "t1">> >>
    /\ b_out.meta = [k \in {"boat_name"} |-> "v1"]
    /\ Len(b_out.rows) = 1
    /\ b_out.rows[1]["wedge"] = "Wedge"
    /\ b_out.rows[1]["type"] = "wedge"

-----------------------------------------------------------------------------
(* read_transform_csv, checked under SpecIO *)

ReadingTransform == b_pc = "reading" /\ b_call.fn = "read_transform_csv"

TransformLineStep == ReadingTransform /\ Len(b_call'.lines) = Len(b_call.lines) + 1

CommentRow(row) == row # <<>> /\ StartsWithHash(CellStrip(row[1]))

XYHeaderRow(row) ==
    /\ Len(row) >= 2
    /\ ~CommentRow(row)
    /\ CellUpper(CellStrip(row[1])) = "X"
    /\ CellUpper(CellStrip(row[2])) = "Y"

\* a row whose first two cells parse as numbers
PointRow(row) == Len(row) >= 2 /\ ParseFloat(row[1]).ok /\ ParseFloat(row[2]).ok

PointOf(row) == <<ParseFloat(row[1]).v, -ParseFloat(row[2]).v>>

\* C23 as stated: a row after the 'X,Y' header whose cells parse as numbers
\* adds exactly the point (x, -y) at the end; every other row (comment,
\* before the header, invalid) adds nothing, and no row makes the call
\* raise.
Orig_C23 ==
    [][TransformLineStep =>
        /\ b_pc' # "raised"
        /\ b_out'.pts = IF b_out.reading /\ ~CommentRow(LineRead)
                            /\ ~XYHeaderRow(LineRead) /\ PointRow(LineRead)
                        THEN Append(b_out.pts, PointOf(LineRead))
                        ELSE b_out.pts]_vars


-----------------------------------------------------------------------------
(* slice_chords, checked under SpecIO *)

\* the outline of the call, closed by its first point
ClosedOutline ==
    LET pts == b_call.points
    IN  IF pts = <<>> \/ pts[1] = pts[Len(pts)] THEN pts ELSE Append(pts, pts[1])

\* the edges of the closed outline that strictly cross the level z
CrossingEdges(z) ==
    {i \in 1 .. Len(ClosedOutline) - 1 :
        \/ ClosedOutline[i][2] < z /\ z < ClosedOutline[i + 1][2]
        \/ ClosedOutline[i + 1][2] < z /\ z < ClosedOutline[i][2]}

\* the levels, in z_levels order, that exactly two edges cross
ChordLevels == SelectSeq(b_call.z_levels, LAMBDA z : Cardinality(CrossingEdges(z)) = 2)

\* the point p has z-coordinate z and lies on the line through edge i
OnEdgeAt(p, i, z) ==
    LET a == ClosedOutline[i]
        b == ClosedOutline[i + 1]
    IN  /\ p[2] = z
        /\ RMul(RSub(p[1], RInt(a[1])), RInt(b[2] - a[2]))
              = RMul(RInt(z - a[2]), RInt(b[1] - a[1]))

\* C24: slice_chords emits, in z_levels order, one chord per level that
\* exactly two edges of the closed outline strictly cross and none for any
\* other level; the chord's endpoints have z-coordinate z and x linearly
\* interpolated along the two crossing edges; the input list is unchanged.
Thm_C24 ==
    Returned("slice_chords") =>
        /\ Len(b_out.chords) = Len(ChordLevels)
        /\ \A k \in 1 .. Len(ChordLevels) :
              LET z == ChordLevels[k]
                  e1 == MinOf(CrossingEdges(z))
                  e2 == MaxOf(CrossingEdges(z))
              IN  /\ OnEdgeAt(b_out.chords[k][1], e1, z)
                  /\ OnEdgeAt(b_out.chords[k][2], e2, z)
        /\ b_out.points = b_call.points

\* a triangle sliced at a level outside it and a level inside it: only the
\* second gives a chord, whose end on the sloping edge has x = 4/3
Wit_C24 ==
    /\ Returned("slice_chords")
    /\ b_call.points = << <<0, 0>>, <<4, 0>>, <<4, 3>> >>
    /\ b_call.z_levels = <<5, 1>>
    /\ b_out.chords = << << <<RInt(4), 1>>, <<Rat(4, 3), 1>> >> >>

-----------------------------------------------------------------------------
(* Radius continuity at a joint of the post, checked under SpecGeom *)

\* lo ends where up begins and the declared radii agree there
Joint(lo, up) == lo.z_top = up.z_bot /\ lo.r_top = up.r_bot

\* a taper of zero height whose two radii differ
ZeroSpanStep(seg) ==
    seg.kind = "taper" /\ seg.z_top = seg.z_bot /\ seg.r_bot # seg.r_top

\* radius_at at the joint gives the same result for both list orders
SameAtJoint(lo, up) ==
    radius_at(lo.z_top, <<lo, up>>) = radius_at(lo.z_top, <<up, lo>>)

\* C25 as stated: for any two adjacent segments of the list whose radii
\* agree at the joint, radius_at at the shared boundary returns the same
\* value whichever of the two comes first.
Orig_C25 ==
    \A i, j \in 1 .. Len(segments) :
        (i # j /\ Joint(segments[i], segments[j]))
            => SameAtJoint(segments[i], segments[j])

\* C25: for any two adjacent segments whose radii agree at the joint and
\* whose upper segment is not a zero-height taper with two different radii,
\* radius_at at the shared boundary returns the joint radius whichever of
\* the two comes first; a query on the list as built returns it too.
Thm_C25 ==
    \A i, j \in 1 .. Len(segments) :
        (i # j /\ Joint(segments[i], segments[j]) /\ ~ZeroSpanStep(segments[j]))
            => /\ SameAtJoint(segments[i], segments[j])
               /\ radius_at(segments[i].z_top, <<segments[i], segments[j]>>).r
                     = segments[i].r_top
               /\ (q_called /\ q_z = segments[i].z_top /\ Len(segments) = 2)
                     => q_result = radius_at(q_z, <<segments[j], segments[i]>>)

\* a taper that narrows downward sits on top of a cylinder, the upper
\* segment first in the list, and the radius was queried at the joint
Wit_C25 ==
    /\ q_called
    /\ Len(segments) = 2
    /\ segments[1].kind = "taper"
    /\ segments[1].z_bot < segments[1].z_top
    /\ segments[1].r_bot # segments[1].r_top
    /\ segments[2].kind = "cyl"
    /\ Joint(segments[2], segments[1])
    /\ q_z = segments[2].z_top
    /\ q_result.ok
    /\ q_result.r = segments[2].r_top


-----------------------------------------------------------------------------
(* Row order and the radius lookup, checked under Spec *)

\* the post segments contributed by the rows 1 .. n that were processed
\* without an exception, in row order
RECURSIVE PrecedingSegments(_)
PrecedingSegments(n) ==
    IF n = 0 THEN <<>>
    ELSE IF ResolveType(rows[n]) \in {"cylinder", "taper"} /\ log[n].exc = "none"
         THEN append_post_segment_from_row(PrecedingSegments(n - 1), rows[n]).segments
    ELSE PrecedingSegments(n - 1)

\* the step that processes a wedge or plate row whose fields parse
TineRowStep ==
    /\ RowStep
    /\ ResolveType(rows[row_i']) \in {"wedge", "plate"}
    /\ ValidRow(rows[row_i'])

CoveringOf(segs, z) ==
    {s \in 1 .. Len(segs) : segs[s].z_bot - EPS <= z /\ z <= segs[s].z_top + EPS}

\* C26: the radius of a tine row comes only from the post segments of the
\* rows before it: the lookup fails exactly when none of those covers its
\* Z, whatever later rows hold, and otherwise the solid is seated at the
\* radius of the first of them that does; no step changes a solid already
\* in the list.
Thm_C26 ==
    [][/\ SubSeq(compound_shapes', 1, Len(compound_shapes)) = compound_shapes
       /\ TineRowStep =>
             LET z == -rows[row_i'].start.v
                 prior == PrecedingSegments(row_i)
                 cov == CoveringOf(prior, z)
             IN  /\ post_segments = prior
                 /\ log'[row_i'].radius_fail = (cov = {})
                 /\ log'[row_i'].exc = "none" =>
                       compound_shapes'[Len(compound_shapes')].x
                          = IF cov = {} THEN RInt(0)
                            ELSE SegRadiusInline(prior[MinOf(cov)], z)]_vars

\* a wedge row ahead of the cylinder that covers its Z: its lookup failed
\* and its solid stayed as built after the cylinder row was processed,
\* although the finished segment list covers the wedge's Z
Wit_C26 ==
    /\ pc = "returned"
    /\ Len(rows) = 2
    /\ ResolveType(rows[1]) = "wedge"
    /\ ResolveType(rows[2]) = "cylinder"
    /\ log[1].radius_fail
    /\ log[2].exc = "none"
    /\ radius_at_inline(-rows[1].start.v, post_segments).ok
    /\ Len(compound) = 2
    /\ compound[1].row = 1
    /\ compound[1].x = RInt(0)


-----------------------------------------------------------------------------
(* geom.radius_at against the closure of build_stock_from_csv, checked     *)
(* under SpecGeom                                                          *)

\* C27 as stated: for every segment list and every z, geom.radius_at and
\* the inline radius_at return the same radius or both fail, a taper of
\* zero span with two different radii included.
Orig_C27 ==
    q_called => q_result = radius_at_inline(q_z, segments)


-----------------------------------------------------------------------------
(* Type resolution of a row, checked under Spec *)

KnownTypes == {"cylinder", "taper", "plate", "wedge"}

\* the type the row resolves to: its explicit type in lower case if it has
\* one, else the section key it carries
TypeOfRow(row) ==
    IF row.type # "" THEN Lower(row.type)
    ELSE IF row.has_plate THEN "plate"
    ELSE IF row.has_wedge THEN "wedge"
    ELSE ""

\* the branch a successfully processed row went through, read off its summary
BranchOf(kind) ==
    CASE kind = "Cylinder" -> "cylinder"
      [] kind = "Taper" -> "taper"
      [] kind = "Tine" -> "wedge"
      [] kind = "Plate" -> "plate"
      [] OTHER -> "none"

\* C28: a row is dispatched by its lower-cased explicit type if that is
\* non-empty, else as plate if it has a 'plate' key, else as wedge if it has
\* a 'wedge' key; a row resolving to no known type adds no solid, summary or
\* post segment, raises nothing, and the loop goes on to the next row.
Thm_C28 ==
    [][RowStep =>
          LET row == rows[row_i']
          IN  /\ TypeOfRow(row) \notin KnownTypes =>
                    /\ log'[row_i'].kind = "unknown"
                    /\ log'[row_i'].exc = "none"
                    /\ compound_shapes' = compound_shapes
                    /\ summaries' = summaries
                    /\ post_segments' = post_segments
                    /\ pc' = "rows"
              /\ TypeOfRow(row) \in KnownTypes =>
                    /\ log'[row_i'].kind \in {"ok", "error"}
                    /\ log'[row_i'].kind = "ok" =>
                          /\ Len(summaries') = Len(summaries) + 1
                          /\ BranchOf(summaries'[Len(summaries')].kind) = TypeOfRow(row)]_vars

\* a row with an unknown explicit type in the plate section, then a row
\* with both section keys and no type, then a cylinder: the first added
\* nothing, the second was built as a plate, the third as a cylinder
Wit_C28 ==
    /\ pc = "returned"
    /\ Len(rows) = 3
    /\ rows[1].type = "Bolt" /\ rows[1].has_plate
    /\ rows[2].type = "" /\ rows[2].has_plate /\ rows[2].has_wedge
    /\ rows[3].type = "Cylinder"
    /\ log[1].kind = "unknown"
    /\ Len(summaries) = 2
    /\ summaries[1].kind = "Plate" /\ summaries[1].row = 2
    /\ summaries[2].kind = "Cylinder" /\ summaries[2].row = 3
    /\ Len(post_segments) = 1


-----------------------------------------------------------------------------
(* All-or-nothing row processing, checked under Spec *)

ListsUnchanged ==
    /\ compound_shapes' = compound_shapes
    /\ summaries' = summaries
    /\ post_segments' = post_segments

\* the row just processed appended one solid and one summary, each last
OneSolidOneSummary ==
    /\ Len(compound_shapes') = Len(compound_shapes) + 1
    /\ SubSeq(compound_shapes', 1, Len(compound_shapes)) = compound_shapes
    /\ compound_shapes'[Len(compound_shapes')].row = row_i'
    /\ Len(summaries') = Len(summaries) + 1
    /\ SubSeq(summaries', 1, Len(summaries)) = summaries
    /\ summaries'[Len(summaries')].row = row_i'

\* C29 as stated: a row whose processing raises leaves the three lists as
\* they were, and every row that does not raise appends its solid and
\* exactly one summary at the end.
Orig_C29 ==
    [][RowStep =>
          IF log'[row_i'].exc # "none" THEN ListsUnchanged
          ELSE OneSolidOneSummary]_vars

\* C29: a row whose processing raises leaves the solid, summary and post
\* segment lists as they were; a row of a known type that does not raise
\* appends exactly one solid and exactly one summary at the end of their
\* lists, so both stay in CSV row order; a row of unknown type does not
\* raise and leaves the three lists as they were.
Thm_C29 ==
    [][RowStep =>
          IF log'[row_i'].exc # "none" THEN ListsUnchanged
          ELSE IF TypeOfRow(rows[row_i']) \in KnownTypes
               THEN /\ OneSolidOneSummary
                    /\ SubSeq(post_segments', 1, Len(post_segments)) = post_segments
                    /\ \A j \in 1 .. Len(compound_shapes') - 1 :
                          compound_shapes'[j].row < compound_shapes'[j + 1].row
                    /\ \A j \in 1 .. Len(summaries') - 1 :
                          summaries'[j].row < summaries'[j + 1].row
               ELSE ListsUnchanged]_vars

\* a cylinder was built, the kernel failed on a taper row, and a plate was
\* built: two solids and two summaries, of rows 1 and 3, and one segment
Wit_C29 ==
    /\ pc = "returned"
    /\ Len(rows) = 3
    /\ log[1].exc = "none"
    /\ ResolveType(rows[2]) = "taper" /\ log[2].exc = "KernelError"
    /\ ResolveType(rows[3]) = "plate" /\ log[3].exc = "none"
    /\ Len(compound) = 2
    /\ compound[1].row = 1 /\ compound[2].row = 3
    /\ Len(summaries) = 2
    /\ summaries[1].row = 1 /\ summaries[2].row = 3
    /\ Len(post_segments) = 1


-----------------------------------------------------------------------------
(* The list returned by the heel-cutter workflow, checked under SpecHeel *)

\* the positions named by neither index list
UntaggedPositions == (1 .. Len(HeelShapes)) \ (PostPositions \cup NonPostPositions)

====
